---- MODULE Spec2Model ----
(***************************************************************************)
(* Model of the scoring and statistics core of the agent-eval harness:     *)
(* CompositeGrader (graders/composite_grader.py), StatisticalAnalyzer      *)
(* (statistics.py) and Reporter.check_regression (reporter.py).            *)
(*                                                                         *)
(* Numbers.  Python floats are modelled by exact rationals.  A score is an *)
(* integer number of hundredths (100 = 1.0) in the grading part and an     *)
(* integer number of score steps (ScoreScale = 1.0) in the statistics      *)
(* part; the steps are chosen so that every score is a binary fraction,    *)
(* for which the float sums, means and variances of the code are exact.    *)
(* A quotient is kept as a reduced fraction [num, den] with den > 0.       *)
(***************************************************************************)
EXTENDS Integers, Sequences, FiniteSets, TLC

VARIABLES
    pc,             \* position of the caller: which call has returned
    task,           \* the Task handed to CompositeGrader.grade
    code_results,   \* what CodeGrader.grade returns for each code assertion
    llm_results,    \* what LLMGrader.grade returns for each LLM assertion
    grades,         \* list[GradeResult] returned by grade
    overall_score,  \* overall score returned by grade
    passed,         \* verdict returned by grade
    threshold,      \* value returned by get_threshold_for_task
    results_a,      \* compare_configs: the overall_score of each result of group A
    results_b,      \* compare_configs: the overall_score of each result of group B
    comparison,     \* the ComparisonResult returned by compare_configs
    rec_args,       \* arguments of a call of _generate_recommendation
    recommendation, \* the string that call returns
    baseline,       \* check_regression: the baseline results
    current,        \* check_regression: the current results
    regression_threshold,   \* check_regression: its threshold argument
    require_significance,   \* check_regression: its require_significance argument
    report,         \* the (has_regressions, comparison_data) check_regression returns
    swapped,        \* what the same check returns with baseline and current exchanged
    call,           \* a call of a static helper: its name and its arguments
    ret,            \* what that call returned
    previous        \* what the preceding call of the same helper returned

gradeVars == <<task, code_results, llm_results, grades, overall_score, passed, threshold>>
compareVars == <<results_a, results_b, comparison, rec_args, recommendation>>
regressVars ==
    <<baseline, current, regression_threshold, require_significance, report, swapped>>
callVars == <<call, ret, previous>>

\* Optional values: None is the empty sequence, a value v is <<v>>
None == <<>>
Some(v) == <<v>>

(***************************************************************************)
(* Exact rationals                                                         *)
(***************************************************************************)
Abs(x) == IF x < 0 THEN -x ELSE x

RECURSIVE GCD(_, _)
GCD(a, b) == IF b = 0 THEN a ELSE GCD(b, a % b)

\* n/d as a reduced fraction; a float division by zero gives nan (or inf), which
\* compares false with everything: it is held as 0/0
Rat(n, d) ==
    LET g == GCD(Abs(n), Abs(d))
        s == IF d < 0 THEN -1 ELSE 1
    IN  IF d = 0 THEN [num |-> 0, den |-> 0]
        ELSE [num |-> s * (n \div g), den |-> s * (d \div g)]

Zero == [num |-> 0, den |-> 1]

\* a/b > c/d for a, c >= 0 and b, d > 0, by continued fractions (no products,
\* so nothing overflows)
RECURSIVE FracGT(_, _, _, _)
FracGT(a, b, c, d) ==
    LET qa == a \div b
        qc == c \div d
        ra == a % b
        rc == c % d
    IN  IF qa # qc THEN qa > qc
        ELSE IF ra = 0 THEN FALSE
        ELSE IF rc = 0 THEN TRUE
        ELSE FracGT(d, rc, b, ra)

RECURSIVE SeqSum(_)
SeqSum(s) == IF s = <<>> THEN 0 ELSE Head(s) + SeqSum(Tail(s))

(***************************************************************************)
(* Composite grader                                                        *)
(***************************************************************************)
Difficulties == {"easy", "medium", "hard"}

\* DIFFICULTY_THRESHOLDS, in hundredths
ThresholdEasy == 85
ThresholdMedium == 70
ThresholdHard == 55

DIFFICULTY_THRESHOLDS(d) ==
    CASE d = "easy" -> ThresholdEasy
      [] d = "medium" -> ThresholdMedium
      [] d = "hard" -> ThresholdHard

\* strings whose characters matter are sequences of characters
Str_code == <<"c", "o", "d", "e">>
Str_llm == <<"l", "l", "m">>
Str_tests_pass == <<"t", "e", "s", "t", "s", "_", "p", "a", "s", "s">>
Digit(i) == <<CASE i = 0 -> "0" [] i = 1 -> "1" [] i = 2 -> "2" [] OTHER -> "3">>

\* f"code_{i}_{assertion.check.value}" and f"llm_{i}"
CodeAssertionId(i, check) == Str_code \o <<"_">> \o Digit(i) \o <<"_">> \o check
LLMAssertionId(i) == Str_llm \o <<"_">> \o Digit(i)

\* Python's `key in grade.assertion_id` on strings
IsSubstring(key, id) ==
    \E i \in 1..(Len(id) - Len(key) + 1) : SubSeq(id, i, i + Len(key) - 1) = key

\* g.assertion_id.startswith("code_")
StartsWithCode(id) ==
    /\ Len(id) >= Len(Str_code) + 1
    /\ SubSeq(id, 1, Len(Str_code) + 1) = Str_code \o <<"_">>

\* weight 1.0, in tenths
DefaultWeight == 10

\* the loop `for key, w in weights.items(): if key in id: weight = w; break`,
\* weights being the scoring dict in iteration order as a sequence of <<key, w>>
RECURSIVE FirstMatch(_, _)
FirstMatch(weights, id) ==
    IF weights = <<>> THEN 0
    ELSE IF IsSubstring(Head(weights)[1], id) THEN Head(weights)[2]
    ELSE FirstMatch(Tail(weights), id)

GradeWeight(weights, id) ==
    LET weight == FirstMatch(weights, id)
    IN  IF weight = 0 THEN DefaultWeight ELSE weight

\* CompositeGrader._calculate_weighted_score, the result in hundredths
CalculateWeightedScore(gs, weights) ==
    LET ws == [i \in 1..Len(gs) |-> GradeWeight(weights, gs[i].assertion_id)]
        total_weight == SeqSum(ws)
        weighted_sum == SeqSum([i \in 1..Len(gs) |-> gs[i].score * ws[i]])
    IN  IF gs = <<>> THEN Zero
        ELSE IF weights = <<>>
        THEN Rat(SeqSum([i \in 1..Len(gs) |-> gs[i].score]), Len(gs))
        ELSE IF total_weight > 0 THEN Rat(weighted_sum, total_weight) ELSE Zero

GetThresholdTruthy(t) ==
    IF t.pass_threshold # None /\ t.pass_threshold[1] # 0 THEN t.pass_threshold[1]
    ELSE DIFFICULTY_THRESHOLDS(t.difficulty)

\* CompositeGrader.get_threshold_for_task
GetThresholdForTask(t) ==
    IF t.pass_threshold # None THEN t.pass_threshold[1]
    ELSE DIFFICULTY_THRESHOLDS(t.difficulty)

\* the threshold chosen inside grade
GradeThreshold(t) ==
    IF t.pass_threshold # None THEN t.pass_threshold[1]
    ELSE DIFFICULTY_THRESHOLDS(t.difficulty)

\* overall_score >= threshold, both in hundredths
ScoreAtLeast(score, thr) == score.num >= thr * score.den

CodeGrades(gs) == {i \in 1..Len(gs) : StartsWithCode(gs[i].assertion_id)}

\* all(g.passed for g in code_grades) if code_grades else True
AllCodePassed(gs) ==
    IF CodeGrades(gs) # {} THEN \A i \in CodeGrades(gs) : gs[i].passed ELSE TRUE

GradePassedAndPolicy(score, thr, gs) == ScoreAtLeast(score, thr) /\ AllCodePassed(gs)

\* passed = overall_score >= threshold or all_code_passed
GradePassed(score, thr, gs) == ScoreAtLeast(score, thr) \/ AllCodePassed(gs)

\* ---- inputs of grade -----------------------------------------------------
MaxAssertions == 2
MaxScoringKeys == 2

\* what a code check and the LLM judge can return: (passed, score)
CodeOutcomes == {[passed |-> TRUE, score |-> 100], [passed |-> FALSE, score |-> 50]}
LLMOutcomes == {[passed |-> TRUE, score |-> 100], [passed |-> FALSE, score |-> 20]}

ScoringKeys == {Str_code, Str_llm, Str_tests_pass}
ScoringWeights == {-10, 0, 30}
PassThresholds == {None, Some(0), Some(50)}

SeqsUpTo(S, n) == UNION {[1..k -> S] : k \in 0..n}

\* a dict: keys are distinct, iteration order is insertion order
ScoringMaps ==
    {m \in SeqsUpTo(ScoringKeys \X ScoringWeights, MaxScoringKeys) :
        \A i, j \in 1..Len(m) : i # j => m[i][1] # m[j][1]}

Tasks ==
    [difficulty : Difficulties,
     pass_threshold : PassThresholds,
     code_assertions : 0..MaxAssertions,
     llm_assertions : 0..MaxAssertions,
     scoring : ScoringMaps]

\* the grades list built by the two loops of grade
BuildGrades(code, llm) ==
    [i \in 1..Len(code) |->
        [assertion_id |-> CodeAssertionId(i - 1, Str_tests_pass),
         passed |-> code[i].passed, score |-> code[i].score]]
    \o
    [i \in 1..Len(llm) |->
        [assertion_id |-> LLMAssertionId(i - 1),
         passed |-> llm[i].passed, score |-> llm[i].score]]

\* CompositeGrader.grade
Grade ==
    /\ pc = "task_loaded"
    /\ LET gs == BuildGrades(code_results, llm_results)
           score == CalculateWeightedScore(gs, task.scoring)
       IN  /\ grades' = gs
           /\ overall_score' = score
           /\ passed' = GradePassed(score, GradeThreshold(task), gs)
    /\ pc' = "graded"
    /\ UNCHANGED <<task, code_results, llm_results, threshold, compareVars, regressVars,
                   callVars>>

\* a caller asking for the threshold of the task it has graded
GetThreshold ==
    /\ pc = "graded"
    /\ threshold' = Some(GetThresholdForTask(task))
    /\ pc' = "threshold_read"
    /\ UNCHANGED <<task, code_results, llm_results, grades, overall_score, passed, compareVars,
                   regressVars, callVars>>

(***************************************************************************)
(* StatisticalAnalyzer.compare_configs                                     *)
(*                                                                         *)
(* A list of results is held as the bag of its scores: scores[l] is the    *)
(* number of results whose overall_score is l / ScoreScale.  Every value   *)
(* compare_configs computes is invariant under reordering the list.        *)
(***************************************************************************)
\* the score 1.0 in score steps (EvalResult.overall_score lies in [0.0, 1.0])
ScoreScale == 4
Levels == 0..ScoreScale

NaN == [num |-> 0, den |-> 0]
IsNaN(r) == r.den = 0

RECURSIVE SumUpTo(_, _)
SumUpTo(f, k) == IF k < 0 THEN 0 ELSE f[k] + SumUpTo(f, k - 1)

\* len(scores), sum(scores), sum(x * x for x in scores), the last two in steps
Size(scores) == SumUpTo(scores, ScoreScale)
Sum1(scores) == SumUpTo([l \in Levels |-> l * scores[l]], ScoreScale)
Sum2(scores) == SumUpTo([l \in Levels |-> l * l * scores[l]], ScoreScale)

\* np.mean(scores): NaN (with a warning, no exception) for an empty array
Mean(scores) ==
    IF Size(scores) = 0 THEN NaN ELSE Rat(Sum1(scores), Size(scores) * ScoreScale)

\* mean_b - mean_a
Delta(a, b) ==
    IF Size(a) = 0 \/ Size(b) = 0 THEN NaN
    ELSE Rat(Sum1(b) * Size(a) - Sum1(a) * Size(b), Size(a) * Size(b) * ScoreScale)

\* n * (n - 1) * np.var(scores, ddof=1) = n * sum(x^2) - sum(x)^2, in steps^2
SumSq(scores) == Size(scores) * Sum2(scores) - Sum1(scores) * Sum1(scores)

\* ---- scipy.stats.mannwhitneyu(x, y, alternative="two-sided") ---------------
\* twice the statistic U1 of x: pairs with x > y count 1, ties count 1/2
U1Twice(x, y) ==
    SumUpTo([i \in Levels |->
        SumUpTo([j \in Levels |->
            x[i] * y[j] * (IF i > j THEN 2 ELSE IF i = j THEN 1 ELSE 0)],
            ScoreScale)], ScoreScale)

\* sum of t^3 - t over the groups of tied values of the pooled sample
TieTerm(x, y) ==
    SumUpTo([l \in Levels |->
        LET t == x[l] + y[l] IN t * t * t - t], ScoreScale)

HasTies(x, y) == \E l \in Levels : x[l] + y[l] > 1

\* method="auto": exact only for a small sample without ties
MwuMethod(x, y) ==
    IF Size(x) > 8 /\ Size(y) > 8 THEN "asymptotic"
    ELSE IF HasTies(x, y) THEN "asymptotic"
    ELSE "exact"

\* the number of ways m values of x and n values of y interleave with U = u
RECURSIVE MwuCount(_, _, _)
MwuCount(u, m, n) ==
    IF u < 0 THEN 0
    ELSE IF m = 0 \/ n = 0 THEN (IF u = 0 THEN 1 ELSE 0)
    ELSE MwuCount(u - n, m - 1, n) + MwuCount(u, m, n - 1)

RECURSIVE MwuCountFrom(_, _, _)
MwuCountFrom(u, m, n) ==
    IF u > m * n THEN 0 ELSE MwuCount(u, m, n) + MwuCountFrom(u + 1, m, n)

\* the square of the two-sided critical value of the normal law at alpha = 0.05,
\* 1.959964^2 = 3.8414588..., as ZCritSqNum / ZCritSqDen
ZCritSqNum == 3841459
ZCritSqDen == 1000000

\* the class of the p-value: "1.0", "[0.05,1.0)" or "<0.05"
\*   exact:      p = clip(2 * P(U >= max(U1, U2)))
\*   asymptotic: z = (max(U1, U2) - n1*n2/2 - 0.5) / s, p = clip(2 * sf(z)),
\*               s^2 = n1*n2/12 * ((n + 1) - TieTerm / (n * (n - 1)));
\*               s = 0 gives z = -inf and p = 1.0
MwuPValue(x, y) ==
    LET n1 == Size(x)
        n2 == Size(y)
        n == n1 + n2
        u1 == U1Twice(x, y)
        u == IF u1 > 2 * n1 * n2 - u1 THEN u1 ELSE 2 * n1 * n2 - u1
        tail == MwuCountFrom(u \div 2, n1, n2)
        all == MwuCountFrom(0, n1, n2)
        top == u - n1 * n2 - 1
        zsq_num == 3 * n * (n - 1) * top * top
        zsq_den == n1 * n2 * ((n + 1) * n * (n - 1) - TieTerm(x, y))
    IN  IF MwuMethod(x, y) = "exact"
        THEN IF 2 * tail >= all THEN "1.0"
             ELSE IF 2 * tail * 100 < 5 * all THEN "<0.05"
             ELSE "[0.05,1.0)"
        ELSE IF top <= 0 \/ zsq_den = 0 THEN "1.0"
             ELSE IF FracGT(zsq_num, zsq_den, ZCritSqNum, ZCritSqDen) THEN "<0.05"
             ELSE "[0.05,1.0)"

\* ---- effect size ---------------------------------------------------------
\* pooled_std^2, in steps^2
PooledVar(a, b) ==
    Rat(SumSq(a) * Size(b) + SumSq(b) * Size(a),
        Size(a) * Size(b) * (Size(a) + Size(b) - 2))

EffectSizeSqNoZeroGuard(a, b) ==
    LET delta == Rat(Sum1(b) * Size(a) - Sum1(a) * Size(b), Size(a) * Size(b))
        pv == PooledVar(a, b)
    IN  IF pv.num > 0
        THEN Rat(delta.num * delta.num * pv.den, delta.den * delta.den * pv.num)
        ELSE IF delta.num # 0 THEN [num |-> 1000, den |-> 1] ELSE Zero

\* effect_size^2 = delta^2 / pooled_std^2 if pooled_std > 0 else 0.0
EffectSizeSq(a, b) ==
    LET delta == Rat(Sum1(b) * Size(a) - Sum1(a) * Size(b), Size(a) * Size(b))
        pv == PooledVar(a, b)
    IN  IF pv.num > 0
        THEN Rat(delta.num * delta.num * pv.den, delta.den * delta.den * pv.num)
        ELSE Zero

\* EFFECT_NEGLIGIBLE, EFFECT_SMALL, EFFECT_MEDIUM, in tenths
EFFECT_NEGLIGIBLE == 2
EFFECT_SMALL == 5
EFFECT_MEDIUM == 8

EffectBelowInclusive(esq, t) == ~FracGT(esq.num, esq.den, t * t, 100)

\* effect_size < t / 10, effect_size >= 0 given by its square
EffectBelow(esq, t) == FracGT(t * t, 100, esq.num, esq.den)

EffectMagnitude(esq) ==
    IF EffectBelow(esq, EFFECT_NEGLIGIBLE) THEN "negligible"
    ELSE IF EffectBelow(esq, EFFECT_SMALL) THEN "small"
    ELSE IF EffectBelow(esq, EFFECT_MEDIUM) THEN "medium"
    ELSE "large"

\* ---- _generate_recommendation ----------------------------------------------
\* the f-strings without their formatted numbers: lead, direction, advice; n is
\* the n= of the first message and -1 elsewhere
Message(lead, direction, n, advice) ==
    [lead |-> lead, direction |-> direction, n |-> n, advice |-> advice]

MinN(n_a, n_b) == IF n_a < n_b THEN n_a ELSE n_b

MinRunsReliable == 5
MinRunsEquivalent == 10

GenerateRecommendationSigFirst(delta, p_value, effect_magnitude, is_significant, n_a, n_b) ==
    LET direction == IF delta.num > 0 THEN "improvement" ELSE "regression"
    IN  IF is_significant
        THEN Message("Significant", direction, -1, "This is a meaningful difference.")
        ELSE Message("Sample size too small", "", MinN(n_a, n_b),
                     "Collect at least 5 runs per configuration for reliable comparison.")

GenerateRecommendation(delta, p_value, effect_magnitude, is_significant, n_a, n_b) ==
    LET min_n == MinN(n_a, n_b)
        direction == IF delta.num > 0 THEN "improvement" ELSE "regression"
    IN  IF min_n < MinRunsReliable
        THEN Message("Sample size too small", "", min_n,
                     "Collect at least 5 runs per configuration for reliable comparison.")
        ELSE IF ~is_significant
        THEN IF min_n < MinRunsEquivalent
             THEN Message("No significant difference detected", "", -1,
                          "Consider increasing sample size for more statistical power.")
             ELSE Message("No significant difference detected", "", -1,
                          "The configurations appear equivalent.")
        ELSE IF effect_magnitude = "negligible"
        THEN Message("Statistically significant but negligible", direction, -1,
                     "The practical difference is minimal.")
        ELSE IF effect_magnitude = "small"
        THEN Message("Statistically significant small", direction, -1,
                     "Consider whether this is practically meaningful.")
        ELSE IF effect_magnitude = "medium"
        THEN Message("Significant medium", direction, -1,
                     "This is a meaningful difference.")
        ELSE Message("Significant large", direction, -1,
                     "This is a substantial difference.")

InsufficientSamples ==
    Message("Insufficient samples for statistical comparison (need at least 2 per group).",
            "", -1, "")

\* ---- compare_configs -----------------------------------------------------
MinSamples == 2

IsSignificantFlipped(p_value) == p_value # "<0.05"

\* is_significant = p_value < alpha, alpha = 0.05
IsSignificant(p_value) == p_value = "<0.05"

\* the result of the full computation, lines 220-274
CompareFull(a, b) ==
    LET p_value == MwuPValue(a, b)
        esq == EffectSizeSq(a, b)
        magnitude == EffectMagnitude(esq)
        is_significant == IsSignificant(p_value)
        mean_a == Mean(a)
        delta == Delta(a, b)
    IN  [mean_a |-> mean_a, mean_b |-> Mean(b), n_a |-> Size(a), n_b |-> Size(b),
         statistic |-> Rat(U1Twice(a, b), 2),
         p_value |-> p_value,
         is_significant |-> is_significant,
         effect_size_sq |-> esq,
         effect_magnitude |-> magnitude,
         delta |-> delta,
         relative_change |->
            IF mean_a.num > 0 THEN Rat(100 * delta.num * mean_a.den, delta.den * mean_a.num)
            ELSE Zero,
         recommendation |->
            GenerateRecommendation(delta, p_value, magnitude, is_significant,
                                   Size(a), Size(b))]

\* the early return of lines 204-218
CompareInsufficient(a, b) ==
    [mean_a |-> Mean(a), mean_b |-> Mean(b), n_a |-> Size(a), n_b |-> Size(b),
     statistic |-> Zero,
     p_value |-> "1.0",
     is_significant |-> FALSE,
     effect_size_sq |-> Zero,
     effect_magnitude |-> "negligible",
     delta |-> Delta(a, b),
     relative_change |-> Zero,
     recommendation |-> InsufficientSamples]

CompareConfigsNoGuard(a, b) ==
    IF Size(a) < 1 \/ Size(b) < 1 THEN CompareInsufficient(a, b) ELSE CompareFull(a, b)

CompareConfigs(a, b) ==
    IF Size(a) < MinSamples \/ Size(b) < MinSamples
    THEN CompareInsufficient(a, b)
    ELSE CompareFull(a, b)

\* ---- inputs of compare_configs -------------------------------------------
MaxRuns == 10
MaxSmallRuns == 3

\* groups of up to MaxRuns results that score 0.0 or 1.0
TwoLevelSamples ==
    {[l \in Levels |-> IF l = 0 THEN i ELSE IF l = ScoreScale THEN j ELSE 0] :
        i \in 0..MaxRuns, j \in 0..MaxRuns} \cap
    {s \in [Levels -> 0..MaxRuns] : Size(s) <= MaxRuns}

\* groups of up to MaxSmallRuns results with any scores
SmallSamples == {s \in [Levels -> 0..MaxSmallRuns] : Size(s) <= MaxSmallRuns}

NoSample == [l \in Levels |-> 0]

\* the 20 runs per group of TestCompareConfigs.test_different_results
RunsPerGroup == 20

\* groups of RunsPerGroup results scoring 0.0 or 0.25, and 0.75 or 1.0
LowSamples ==
    {[l \in Levels |-> IF l = 0 THEN i ELSE IF l = 1 THEN RunsPerGroup - i ELSE 0] :
        i \in 0..RunsPerGroup}
HighSamples ==
    {[l \in Levels |-> IF l = ScoreScale THEN i
                       ELSE IF l = ScoreScale - 1 THEN RunsPerGroup - i ELSE 0] :
        i \in 0..RunsPerGroup}

RecDeltas == {Rat(-1, 2), Zero, Rat(1, 2)}
Magnitudes == {"negligible", "small", "medium", "large"}
RecArgs ==
    [delta : RecDeltas, effect_magnitude : Magnitudes, is_significant : BOOLEAN,
     n_a : 0..MaxRuns, n_b : 0..MaxRuns]

CompareConfigsCall ==
    /\ pc = "results_loaded"
    /\ comparison' = Some(CompareConfigs(results_a, results_b))
    /\ pc' = "compared"
    /\ UNCHANGED <<gradeVars, regressVars, callVars, results_a, results_b, rec_args,
                   recommendation>>

GenerateRecommendationCall ==
    /\ pc = "args_chosen"
    /\ recommendation' =
          Some(GenerateRecommendation(rec_args[1].delta, "p", rec_args[1].effect_magnitude,
                                      rec_args[1].is_significant,
                                      rec_args[1].n_a, rec_args[1].n_b))
    /\ pc' = "recommended"
    /\ UNCHANGED <<gradeVars, regressVars, callVars, results_a, results_b, comparison,
                   rec_args>>

(***************************************************************************)
(* Reporter.check_regression                                               *)
(*                                                                         *)
(* A list of EvalResults is held as a bag: results[i] is the number of     *)
(* results with the key (task_id, config_name, model), the overall_score   *)
(* and the passed flag of KindSeq[i].                                      *)
(***************************************************************************)
\* the group keys, in the order sorted() gives them
KeyOrder == << <<"t1", "c1", "m1">>, <<"t2", "c1", "m1">> >>
Keys == {KeyOrder[i] : i \in 1..Len(KeyOrder)}

\* results scoring 0.0 or 1.0; a run can pass with a low score (the OR policy
\* of grade) but a run scoring 1.0 meets every threshold
KindsOf(k) ==
    <<[key |-> k, overall_score |-> 0, passed |-> FALSE],
      [key |-> k, overall_score |-> 0, passed |-> TRUE],
      [key |-> k, overall_score |-> ScoreScale, passed |-> TRUE]>>

\* the first key has results of every kind, the second failed and perfect runs
KindSeq == KindsOf(KeyOrder[1]) \o SubSeq(KindsOf(KeyOrder[2]), 1, 1)
                                \o SubSeq(KindsOf(KeyOrder[2]), 3, 3)
ResultKinds == 1..Len(KindSeq)

\* the number of results of the list whose kind is one of kinds
RECURSIVE BagCountFrom(_, _, _)
BagCountFrom(results, kinds, i) ==
    IF i > Len(KindSeq) THEN 0
    ELSE (IF i \in kinds THEN results[i] ELSE 0) + BagCountFrom(results, kinds, i + 1)

BagCount(results, kinds) == BagCountFrom(results, kinds, 1)

\* _group_results_by_key(results)[key], as its size, its passed count and its scores
GroupSize(results, key) == BagCount(results, {i \in ResultKinds : KindSeq[i].key = key})
GroupPassed(results, key) ==
    BagCount(results, {i \in ResultKinds : KindSeq[i].key = key /\ KindSeq[i].passed})
\* the scores of the group as a bag over Levels, filled level by level from l up
RECURSIVE GroupScoresFrom(_, _, _)
GroupScoresFrom(results, key, l) ==
    LET here == l :> BagCount(results, {i \in ResultKinds :
                                          KindSeq[i].key = key /\ KindSeq[i].overall_score = l})
    IN  IF l = ScoreScale THEN here ELSE here @@ GroupScoresFrom(results, key, l + 1)

GroupScores(results, key) == GroupScoresFrom(results, key, 0)

\* _calculate_metrics(results).pass_rate
PassRate(results, key) == Rat(GroupPassed(results, key), GroupSize(results, key))

\* x < y for two fractions with positive denominators
RatLess(x, y) == x.num * y.den < y.num * x.den
RatNeg(x) == [num |-> -x.num, den |-> x.den]

\* the one element of a singleton set: Only({e}) is e, computed once
Only(S) == CHOOSE x \in S : TRUE

\* stat_comparison of a key: compare_configs when both sides have results
StatComparison(b, c, key) ==
    IF GroupSize(b, key) > 0 /\ GroupSize(c, key) > 0
    THEN Some(CompareConfigs(GroupScores(b, key), GroupScores(c, key)))
    ELSE None

\* baseline_rate / current_rate of a key: 0 for a side without results
SideRate(results, key) == IF GroupSize(results, key) > 0 THEN PassRate(results, key) ELSE Zero

\* lines 730-762: the comparison dict of the key and the list it is appended to
GroupVerdict(key, baseline_rate, current_rate, stat_comparison, thr, req) ==
    LET delta == Rat(current_rate.num * baseline_rate.den - baseline_rate.num * current_rate.den,
                     current_rate.den * baseline_rate.den)
        is_regression ==
            IF req /\ stat_comparison # None
            THEN RatLess(delta, RatNeg(thr)) /\ stat_comparison[1].is_significant
            ELSE RatLess(delta, RatNeg(thr))
        is_improvement ==
            IF req /\ stat_comparison # None
            THEN RatLess(thr, delta) /\ stat_comparison[1].is_significant
            ELSE RatLess(thr, delta)
    IN  [key |-> key,
         baseline_pass_rate |-> baseline_rate,
         current_pass_rate |-> current_rate,
         delta |-> delta,
         stat |-> stat_comparison,
         list |-> IF is_regression THEN "regressions"
                  ELSE IF is_improvement THEN "improvements" ELSE "none"]

\* one pass of the loop body of check_regression, lines 704-762
GroupComparison(b, c, key, thr, req) ==
    Only({GroupVerdict(key, baseline_rate, current_rate, stat_comparison, thr, req) :
            baseline_rate \in {SideRate(b, key)},
            current_rate \in {SideRate(c, key)},
            stat_comparison \in {StatComparison(b, c, key)}})

AllKeysOfBaseline(b, c) == SelectSeq(KeyOrder, LAMBDA k : GroupSize(b, k) > 0)

\* the keys of either side, sorted
AllKeys(b, c) ==
    SelectSeq(KeyOrder, LAMBDA k : GroupSize(b, k) > 0 \/ GroupSize(c, k) > 0)

Entry(g) ==
    [key |-> g.key, baseline_pass_rate |-> g.baseline_pass_rate,
     current_pass_rate |-> g.current_pass_rate, delta |-> g.delta, stat |-> g.stat]

\* the loop over the sorted keys: one entry per key, in key order
RECURSIVE ComparisonsOf(_, _, _, _, _)
ComparisonsOf(keys, b, c, thr, req) ==
    IF keys = <<>> THEN <<>>
    ELSE <<GroupComparison(b, c, Head(keys), thr, req)>>
         \o ComparisonsOf(Tail(keys), b, c, thr, req)

AllComparisons(b, c, thr, req) == ComparisonsOf(AllKeys(b, c), b, c, thr, req)

\* the entries appended to the list of that name, in key order
AppendedTo(name, all) == SelectSeq(all, LAMBDA g : g.list = name)

RECURSIVE Entries(_)
Entries(gs) == IF gs = <<>> THEN <<>> ELSE <<Entry(Head(gs))>> \o Entries(Tail(gs))

\* lines 764-775: the returned pair, from the three lists the loop has built
Summary(all, thr, req) ==
    [has_regressions |-> Len(AppendedTo("regressions", all)) > 0,
     regression_count |-> Len(AppendedTo("regressions", all)),
     improvement_count |-> Len(AppendedTo("improvements", all)),
     threshold |-> thr,
     require_significance |-> req,
     regressions |-> Entries(AppendedTo("regressions", all)),
     improvements |-> Entries(AppendedTo("improvements", all)),
     comparisons |-> Entries(all)]

CheckRegression(b, c, thr, req) ==
    Only({Summary(all, thr, req) : all \in {AllComparisons(b, c, thr, req)}})

\* ---- inputs of check_regression ------------------------------------------
MaxResults == 3

ResultLists ==
    {r \in [ResultKinds -> 0..MaxResults] : BagCount(r, ResultKinds) <= MaxResults}

NoResults == [r \in ResultKinds |-> 0]

\* the default threshold 0.05, and 0.5
RegressionThresholds == {Rat(1, 20), Rat(1, 2)}

CheckRegressionCall ==
    /\ pc = "runs_loaded"
    /\ report' = Some(CheckRegression(baseline, current, regression_threshold,
                                      require_significance))
    /\ pc' = "regression_checked"
    /\ UNCHANGED <<gradeVars, compareVars, callVars, baseline, current, regression_threshold,
                   require_significance, swapped>>

\* the caller repeating the check with the two result collections exchanged
CheckRegressionSwappedCall ==
    /\ pc = "regression_checked"
    /\ swapped' = Some(CheckRegression(current, baseline, regression_threshold,
                                       require_significance))
    /\ pc' = "swap_checked"
    /\ UNCHANGED <<gradeVars, compareVars, callVars, baseline, current, regression_threshold,
                   require_significance, report>>

(***************************************************************************)
(* StatisticalAnalyzer.is_regression                                       *)
(***************************************************************************)
DeltaBeyond(delta, thr) ==
    ~IsNaN(delta) /\ (RatLess(delta, RatNeg(thr)) \/ RatLess(thr, delta))

\* comparison.delta < -threshold; a nan delta compares false
DeltaBelow(delta, thr) == ~IsNaN(delta) /\ RatLess(delta, RatNeg(thr))

\* lines 589-592: the verdict on the comparison
IsRegressed(cmp, thr, req) ==
    IF req THEN DeltaBelow(cmp.delta, thr) /\ cmp.is_significant
    ELSE DeltaBelow(cmp.delta, thr)

IsRegression(baseline_results, current_results, thr, req) ==
    Only({[is_regressed |-> IsRegressed(cmp, thr, req), comparison |-> cmp] :
            cmp \in {CompareConfigs(baseline_results, current_results)}})

\* the default threshold is 0.05; 0.0 and 0.1 are the thresholds used here
IsRegressionThresholds == {Zero, Rat(1, 10)}

IsRegressionCalls ==
    [op : {"is_regression"},
     baseline_results : TwoLevelSamples,
     current_results : TwoLevelSamples,
     threshold : IsRegressionThresholds,
     require_significance : BOOLEAN]

IsRegressionCall ==
    /\ pc = "call_made"
    /\ call.op = "is_regression"
    /\ ret' = Some(IsRegression(call.baseline_results, call.current_results,
                                call.threshold, call.require_significance))
    /\ pc' = "returned"
    /\ UNCHANGED <<gradeVars, compareVars, regressVars, call, previous>>

\* the caller repeating the call with baseline and current exchanged
IsRegressionSwappedCall ==
    /\ pc = "returned"
    /\ call.op = "is_regression"
    /\ swapped' = Some(IsRegression(call.current_results, call.baseline_results,
                                    call.threshold, call.require_significance))
    /\ pc' = "swap_returned"
    /\ UNCHANGED <<gradeVars, compareVars, callVars, baseline, current, regression_threshold,
                   require_significance, report>>

(***************************************************************************)
(* A caller running both regression checks on the same two collections,    *)
(* all of whose results belong to one (task, config, model) group.         *)
(***************************************************************************)
\* both collections have results, all of the first key
SingleGroup(b, c) ==
    /\ GroupSize(b, KeyOrder[1]) > 0
    /\ GroupSize(c, KeyOrder[1]) > 0
    /\ GroupSize(b, KeyOrder[2]) = 0
    /\ GroupSize(c, KeyOrder[2]) = 0

\* StatisticalAnalyzer.is_regression on the collections check_regression has
\* just compared
IsRegressionSameCall ==
    /\ pc = "regression_checked"
    /\ SingleGroup(baseline, current)
    /\ ret' = Some(IsRegression(GroupScores(baseline, KeyOrder[1]),
                                GroupScores(current, KeyOrder[1]),
                                regression_threshold, require_significance))
    /\ pc' = "both_checked"
    /\ UNCHANGED <<gradeVars, compareVars, regressVars, call, previous>>

(***************************************************************************)
(* StatisticalAnalyzer.pass_at_k_unbiased                                  *)
(*                                                                         *)
(* results is held as the number of its passed and of its failed results.  *)
(***************************************************************************)
One == [num |-> 1, den |-> 1]

\* math.comb(n, k) for n >= 0: 0 when k > n; a negative k raises ValueError
RECURSIVE Comb(_, _)
Comb(n, k) ==
    IF k > n THEN 0
    ELSE IF k = 0 THEN 1
    ELSE (Comb(n - 1, k - 1) * n) \div k

PassAtKNoEmptyGuard(results, k) ==
    LET n == results.passed + results.failed
        c == results.passed
    IN  IF k > n THEN Rat(c, n)
        ELSE IF c = n THEN One
        ELSE IF c = 0 THEN Zero
        ELSE IF k < 0 THEN Rat(c, n)
        ELSE Rat(Comb(n, k) - Comb(n - c, k), Comb(n, k))

PassAtKSimpleEstimate(results, k) ==
    LET n == results.passed + results.failed
    IN  IF n = 0 THEN Zero ELSE Rat(results.passed, n)

PassAtKUnbiased(results, k) ==
    LET n == results.passed + results.failed
        c == results.passed
    IN  IF n = 0 THEN Zero
        ELSE IF k > n THEN Rat(c, n)
        ELSE IF c = n THEN One
        ELSE IF c = 0 THEN Zero
        ELSE IF k < 0 THEN Rat(c, n)
        ELSE IF Comb(n, k) = 0 THEN Zero
        ELSE Rat(Comb(n, k) - Comb(n - c, k), Comb(n, k))

\* result lists of at most MaxRuns results, k from -1 to one above MaxRuns
PassAtKCalls ==
    UNION {{[op |-> "pass_at_k_unbiased", results |-> [passed |-> c, failed |-> f], k |-> k] :
                f \in 0..(MaxRuns - c), k \in -1..(MaxRuns + 1)} : c \in 0..MaxRuns}

PassAtKCall ==
    /\ pc = "call_made"
    /\ call.op = "pass_at_k_unbiased"
    /\ ret' = Some(PassAtKUnbiased(call.results, call.k))
    /\ pc' = "returned"
    /\ UNCHANGED <<gradeVars, compareVars, regressVars, call, previous>>

\* the caller asking for the next k on the same results
PassAtKNextCall ==
    /\ pc = "returned"
    /\ call.op = "pass_at_k_unbiased"
    /\ call.k <= MaxRuns
    /\ call' = [call EXCEPT !.k = call.k + 1]
    /\ previous' = ret
    /\ ret' = Some(PassAtKUnbiased(call.results, call.k + 1))
    /\ UNCHANGED <<pc, gradeVars, compareVars, regressVars>>

(***************************************************************************)
(* CodeGrader (harness/graders/code_graders.py).  What the environment     *)
(* does with a check (the subprocess, the file system, the regex engine)   *)
(* is the env field of the call.                                           *)
(***************************************************************************)
GradeResult(is_passed, score, details) ==
    [raised |-> FALSE, passed |-> is_passed, score |-> score, details |-> details]

\* an exception that leaves the call
Raised(exception) == [raised |-> TRUE, exception |-> exception]

\* bool(value) of an optional string
Truthy(value) == value # None /\ value[1] # ""

DefaultPassThreshold == Rat(4, 5)
CleanThreshold == Rat(7, 10)
RuffPenalty == Rat(1, 10)
MypyPenalty == Rat(1, 20)

\* the summary of a test run: a sequence of "<count> <word>" items
SummaryWords == {"passed", "failed", "error", "warnings"}
SummaryCounts == {1, 4, 9}
MaxItems == 3
TestOutputs ==
    SeqsUpTo({[count |-> c, word |-> w] : c \in SummaryCounts, w \in SummaryWords}, MaxItems)

\* int(re.search(r"(\d+)\s+<word>", output).group(1)) if it matches, else 0
RECURSIVE SearchCountFrom(_, _, _)
SearchCountFrom(output, word, i) ==
    IF i > Len(output) THEN 0
    ELSE IF output[i].word = word THEN output[i].count
    ELSE SearchCountFrom(output, word, i + 1)

SearchCount(output, word) == SearchCountFrom(output, word, 1)

TestRuns ==
    {[outcome |-> "timeout"], [outcome |-> "error"]}
    \cup {[outcome |-> "completed", returncode |-> rc, output |-> o] :
              rc \in {0, 1}, o \in TestOutputs}

\* passed from the exit code alone
GradeTestsPassExitOnly(run, pass_threshold) ==
    IF run.outcome = "timeout" THEN GradeResult(FALSE, Zero, "Test command timed out")
    ELSE IF run.outcome = "error" THEN GradeResult(FALSE, Zero, "Error running tests")
    ELSE LET total_tests == SearchCount(run.output, "passed") + SearchCount(run.output, "failed")
                              + SearchCount(run.output, "error")
         IN  IF total_tests > 0
             THEN GradeResult(run.returncode = 0,
                              Rat(SearchCount(run.output, "passed"), total_tests), "tests passed")
             ELSE GradeResult(run.returncode = 0,
                              IF run.returncode = 0 THEN One ELSE Zero, "exit code")

GradeTestsPass(run, pass_threshold) ==
    IF run.outcome = "timeout" THEN GradeResult(FALSE, Zero, "Test command timed out")
    ELSE IF run.outcome = "error" THEN GradeResult(FALSE, Zero, "Error running tests")
    ELSE LET passed_count == SearchCount(run.output, "passed")
             failed_count == SearchCount(run.output, "failed")
             error_count == SearchCount(run.output, "error")
             total_tests == passed_count + failed_count + error_count
             score == Rat(passed_count, total_tests)
             all_passed == run.returncode = 0
             meets_threshold == ~RatLess(score, pass_threshold)
         IN  IF total_tests > 0
             THEN GradeResult(all_passed \/ meets_threshold, score, "tests passed")
             ELSE GradeResult(all_passed, IF all_passed THEN One ELSE Zero, "exit code")

\* 1.0 - count * penalty, without the floor
PenaltyScoreNoFloor(count, penalty) ==
    Rat(penalty.den - count * penalty.num, penalty.den)

\* max(0.0, 1.0 - count * penalty)
PenaltyScore(count, penalty) ==
    IF count * penalty.num >= penalty.den THEN Zero
    ELSE Rat(penalty.den - count * penalty.num, penalty.den)

MaxViolations == 21

\* violations is len(json.loads(stdout)), 0 for empty or undecodable stdout
RuffRuns ==
    {[outcome |-> "not_found"], [outcome |-> "timeout"], [outcome |-> "error"]}
    \cup {[outcome |-> "completed", violations |-> v] : v \in 0..MaxViolations}

GradeRuffClean(run) ==
    IF run.outcome = "not_found" THEN GradeResult(FALSE, Zero, "ruff not found")
    ELSE IF run.outcome = "timeout" THEN GradeResult(FALSE, Zero, "ruff command timed out")
    ELSE IF run.outcome = "error" THEN GradeResult(FALSE, Zero, "Error running ruff")
    ELSE IF run.violations = 0 THEN GradeResult(TRUE, One, "No linting violations")
    ELSE LET score == PenaltyScore(run.violations, RuffPenalty)
         IN  GradeResult(~RatLess(score, CleanThreshold), score, "violations")

\* errors is the number of stdout lines holding ": error:"
MypyRuns ==
    {[outcome |-> "not_found"], [outcome |-> "timeout"], [outcome |-> "error"]}
    \cup {[outcome |-> "completed", returncode |-> rc, errors |-> v] :
              rc \in {0, 1}, v \in 0..MaxViolations}

GradeMypyClean(run) ==
    IF run.outcome = "not_found" THEN GradeResult(FALSE, Zero, "mypy not found")
    ELSE IF run.outcome = "timeout" THEN GradeResult(FALSE, Zero, "mypy command timed out")
    ELSE IF run.outcome = "error" THEN GradeResult(FALSE, Zero, "Error running mypy")
    ELSE IF run.returncode = 0 \/ run.errors = 0 THEN GradeResult(TRUE, One, "No type errors")
    ELSE LET score == PenaltyScore(run.errors, MypyPenalty)
         IN  GradeResult(~RatLess(score, CleanThreshold), score, "type errors")

\* stat is what file_path.exists() does, read what read_text and re.search do
FileChecks ==
    {[stat |-> "missing"], [stat |-> "os_error"]}
    \cup {[stat |-> "exists", read |-> r] :
              r \in {"found", "not_found", "invalid_regex", "read_error"}}

GradeFileContains(check) ==
    IF check.stat = "os_error" THEN Raised("OSError")
    ELSE IF check.stat = "missing" THEN GradeResult(FALSE, Zero, "File not found")
    ELSE IF check.read \in {"invalid_regex", "read_error"}
         THEN GradeResult(FALSE, Zero, "Error reading file")
    ELSE GradeResult(check.read = "found", IF check.read = "found" THEN One ELSE Zero, "Pattern")

GradeFileNotContains(check) ==
    IF check.stat = "os_error" THEN Raised("OSError")
    ELSE IF check.stat = "missing" THEN GradeResult(FALSE, Zero, "File not found")
    ELSE IF check.read \in {"invalid_regex", "read_error"}
         THEN GradeResult(FALSE, Zero, "Error reading file")
    ELSE GradeResult(check.read = "not_found",
                     IF check.read = "not_found" THEN One ELSE Zero, "Pattern")

FileStats == {[stat |-> s] : s \in {"exists", "missing", "os_error"}}

GradeFileExists(check) ==
    IF check.stat = "os_error" THEN Raised("OSError")
    ELSE GradeResult(check.stat = "exists", IF check.stat = "exists" THEN One ELSE Zero, "File")

CommandRuns ==
    {[outcome |-> "timeout"], [outcome |-> "error"]}
    \cup {[outcome |-> "completed", returncode |-> rc] : rc \in {0, 1}}

GradeCommandSucceeds(run) ==
    IF run.outcome = "timeout" THEN GradeResult(FALSE, Zero, "Command timed out")
    ELSE IF run.outcome = "error" THEN GradeResult(FALSE, Zero, "Error running command")
    ELSE GradeResult(run.returncode = 0, IF run.returncode = 0 THEN One ELSE Zero, "output")

\* CodeGrader.grade: the match statement over assertion.check
CodeGraderGrade(assertion, env) ==
    CASE assertion.check = "tests_pass" -> GradeTestsPass(env, DefaultPassThreshold)
      [] assertion.check = "file_contains" ->
            IF ~Truthy(assertion.file) \/ ~Truthy(assertion.pattern)
            THEN GradeResult(FALSE, Zero, "file_contains requires file and pattern")
            ELSE GradeFileContains(env)
      [] assertion.check = "file_exists" ->
            IF ~Truthy(assertion.file)
            THEN GradeResult(FALSE, Zero, "file_exists requires file")
            ELSE GradeFileExists(env)
      [] assertion.check = "file_not_contains" ->
            IF ~Truthy(assertion.file) \/ ~Truthy(assertion.pattern)
            THEN GradeResult(FALSE, Zero, "file_not_contains requires file and pattern")
            ELSE GradeFileNotContains(env)
      [] assertion.check = "command_succeeds" ->
            IF ~Truthy(assertion.command)
            THEN GradeResult(FALSE, Zero, "command_succeeds requires command")
            ELSE GradeCommandSucceeds(env)
      [] assertion.check = "ruff_clean" -> GradeRuffClean(env)
      [] assertion.check = "mypy_clean" -> GradeMypyClean(env)
      [] OTHER -> GradeResult(FALSE, Zero, "Unknown check type")

\* what the environment can do with each kind of check; the test runs of a
\* graded assertion are the ones with at most one summary item
Environments(check) ==
    CASE check = "tests_pass" ->
            {r \in TestRuns : r.outcome = "completed" => Len(r.output) <= 1}
      [] check \in {"file_contains", "file_not_contains"} -> FileChecks
      [] check = "file_exists" -> FileStats
      [] check = "command_succeeds" -> CommandRuns
      [] check = "ruff_clean" -> RuffRuns
      [] check = "mypy_clean" -> MypyRuns

CodeCheckType ==
    {"tests_pass", "file_contains", "file_exists", "file_not_contains",
     "command_succeeds", "ruff_clean", "mypy_clean"}

OptionalStrings == {None, Some(""), Some("x")}

CodeAssertions ==
    [check : CodeCheckType, command : OptionalStrings, file : OptionalStrings,
     pattern : OptionalStrings]

GradeCalls ==
    UNION {{[op |-> "grade", assertion |-> a, env |-> e] : e \in Environments(a.check)} :
               a \in CodeAssertions}

GradeTestsPassCalls ==
    {[op |-> "grade_tests_pass", env |-> r, pass_threshold |-> t] :
         r \in TestRuns, t \in {DefaultPassThreshold, One}}

CodeGraderGradeCall ==
    /\ pc = "call_made"
    /\ call.op = "grade"
    /\ ret' = Some(CodeGraderGrade(call.assertion, call.env))
    /\ pc' = "returned"
    /\ UNCHANGED <<gradeVars, compareVars, regressVars, call, previous>>

GradeTestsPassCall ==
    /\ pc = "call_made"
    /\ call.op = "grade_tests_pass"
    /\ ret' = Some(GradeTestsPass(call.env, call.pass_threshold))
    /\ pc' = "returned"
    /\ UNCHANGED <<gradeVars, compareVars, regressVars, call, previous>>

\* the same assertion graded again after the tool reports one more violation
GradeOneMoreViolation ==
    /\ pc = "returned"
    /\ call.op = "grade"
    /\ \/ /\ call.assertion.check = "ruff_clean"
          /\ call.env.outcome = "completed"
          /\ call.env.violations < MaxViolations
          /\ call' = [call EXCEPT !.env.violations = @ + 1]
       \/ /\ call.assertion.check = "mypy_clean"
          /\ call.env.outcome = "completed"
          /\ call.env.errors < MaxViolations
          /\ call' = [call EXCEPT !.env.errors = @ + 1]
    /\ previous' = ret
    /\ ret' = Some(CodeGraderGrade(call'.assertion, call'.env))
    /\ UNCHANGED <<pc, gradeVars, compareVars, regressVars>>

(***************************************************************************)
(* LLMGrader._parse_response (harness/graders/llm_graders.py).  Scores are *)
(* in tenths.  A response is the judge's text: whether it decodes as JSON, *)
(* the fields of the decoded object, and whether the free text says        *)
(* "passed" or "success".                                                  *)
(***************************************************************************)
Tenths == 10
JudgeScores == {-1, 3, 5, 7, 9, 12}
CriterionScores == {5, 15}
MaxCriteria == 2
RegressionChecks ==
    {None, Some([has_passed |-> FALSE, passed |-> TRUE, notes |-> FALSE]),
     Some([has_passed |-> FALSE, passed |-> TRUE, notes |-> TRUE]),
     Some([has_passed |-> TRUE, passed |-> TRUE, notes |-> TRUE]),
     Some([has_passed |-> TRUE, passed |-> FALSE, notes |-> TRUE])}

Responses ==
    {r \in [valid_json : BOOLEAN,
            overall_score : {None} \cup {Some(s) : s \in JudgeScores},
            passed : {None, Some(TRUE), Some(FALSE)},
            criteria_scores : SeqsUpTo(CriterionScores, MaxCriteria),
            regression_check : RegressionChecks,
            says_passed : BOOLEAN] :
        ~r.valid_json =>
            /\ r.overall_score = None
            /\ r.passed = None
            /\ r.criteria_scores = <<>>
            /\ r.regression_check = None}

\* Field(ge=0.0, le=1.0) of GradeResult.score and CriterionScore.score
ValidScore(s) == 0 <= s /\ s <= Tenths

\* "passed" in lower_text or "success" in lower_text: the keys of the JSON
\* object are part of the text
MentionsPassed(response) ==
    \/ response.says_passed
    \/ response.passed # None
    \/ response.regression_check # None /\ response.regression_check[1].has_passed

\* the except branch for JSONDecodeError, KeyError and ValueError
Fallback(response) ==
    GradeResult(MentionsPassed(response),
                IF MentionsPassed(response) THEN Rat(7, Tenths) ELSE Rat(3, Tenths),
                "Could not parse structured response")

\* bool(regression) and not regression.get("passed", True)
RegressionFailed(response) ==
    /\ response.regression_check # None
    /\ response.regression_check[1].has_passed \/ response.regression_check[1].notes
    /\ ~response.regression_check[1].passed

ParseResponse(response) ==
    LET judge_score == IF response.overall_score = None THEN 0 ELSE response.overall_score[1]
        judged == IF response.passed = None THEN judge_score >= 7 ELSE response.passed[1]
        capped == IF judge_score < 5 THEN judge_score ELSE 5
    IN  IF ~response.valid_json THEN Fallback(response)
        ELSE IF \E i \in 1..Len(response.criteria_scores) :
                    ~ValidScore(response.criteria_scores[i])
             THEN Fallback(response)
        ELSE IF RegressionFailed(response)
             THEN IF ValidScore(capped)
                  THEN GradeResult(FALSE, Rat(capped, Tenths), "REGRESSION WARNING")
                  ELSE Fallback(response)
        ELSE IF ValidScore(judge_score)
             THEN GradeResult(judged, Rat(judge_score, Tenths), "criteria")
        ELSE Fallback(response)

ParseResponseCalls == {[op |-> "_parse_response", response |-> r] : r \in Responses}

ParseResponseCall ==
    /\ pc = "call_made"
    /\ call.op = "_parse_response"
    /\ ret' = Some(ParseResponse(call.response))
    /\ pc' = "returned"
    /\ UNCHANGED <<gradeVars, compareVars, regressVars, call, previous>>

(***************************************************************************)
(* LLMGrader.grade (harness/graders/llm_graders.py): the call of the judge *)
(* and the parse of its answer, inside one try block.  An exchange is what *)
(* the API call does (it answers or the transport fails), the shape of the *)
(* decoded JSON value, and the response text.                              *)
(***************************************************************************)
\* the except branch of grade, lines 97-107
GradingFailed == GradeResult(FALSE, Zero, "LLM grading failed")

\* json.loads succeeds with a value that is not an object: data.get raises
\* AttributeError, which _parse_response does not catch
ParseResponseRaises(shape, response) == response.valid_json /\ shape # "object"

LLMGraderGrade(api, shape, response) ==
    IF api = "transport_error" THEN GradingFailed
    ELSE IF ParseResponseRaises(shape, response) THEN GradingFailed
    ELSE ParseResponse(response)

NoResponse ==
    [valid_json |-> FALSE, overall_score |-> None, passed |-> None,
     criteria_scores |-> <<>>, regression_check |-> None, says_passed |-> FALSE]

LLMGradeCalls ==
    {[op |-> "llm_grade", api |-> "transport_error", shape |-> "object",
      response |-> NoResponse]} \cup
    {[op |-> "llm_grade", api |-> "answered", shape |-> s, response |-> r] :
        s \in {"object", "array"},
        r \in {x \in Responses : x.criteria_scores = <<>> /\ x.regression_check = None}}

LLMGraderGradeCall ==
    /\ pc = "call_made"
    /\ call.op = "llm_grade"
    /\ ret' = Some(LLMGraderGrade(call.api, call.shape, call.response))
    /\ pc' = "returned"
    /\ UNCHANGED <<gradeVars, compareVars, regressVars, call, previous>>

(***************************************************************************)
(* StatisticalAnalyzer.minimum_sample_size (harness/statistics.py).  The   *)
(* arguments are rationals (NaN included); the floating-point formula of   *)
(* the valid branch is evaluated in fixed point, in units of 1/10000.      *)
(***************************************************************************)
Units == 10000
FallbackSampleSize == 30
MinSampleSize == 5
AltRateHigh == 9900
AltRateLow == 100

ToUnits(r) == (r.num * Units) \div r.den

\* floor of the square root, for 0 <= x <= Units * Units
RECURSIVE ISqrtIn(_, _, _)
ISqrtIn(x, lo, hi) ==
    IF lo = hi THEN lo
    ELSE IF ((lo + hi + 1) \div 2) * ((lo + hi + 1) \div 2) <= x
         THEN ISqrtIn(x, (lo + hi + 1) \div 2, hi)
    ELSE ISqrtIn(x, lo, ((lo + hi + 1) \div 2) - 1)

ISqrt(x) == ISqrtIn(x, 0, Units)

\* stats.norm.ppf(1 - alpha / 2) and stats.norm.ppf(power), in units
ZAlpha(alpha) == IF alpha = Rat(1, 20) THEN 19600 ELSE 25758
ZPower(power) == IF power = Rat(4, 5) THEN 8416 ELSE 12816

Words_invalid ==
    <<"Invalid", "baseline", "rate.", "Using", "minimum", "sample", "size", "of", "30.">>
Words_zero_effect ==
    <<"Effect", "size", "is", "0.", "Using", "minimum", "sample", "size", "of", "30.">>
Words_power ==
    <<"Sample", "size", "provides", "power", "to", "detect", "change.">>

PowerAnalysisResult(baseline_rate, min_effect, n, power, alpha, notes) ==
    [baseline_rate |-> baseline_rate, min_detectable_effect |-> min_effect,
     recommended_sample_size |-> n, power |-> power, alpha |-> alpha, notes |-> notes]

\* 0 <= baseline_rate <= 1
ValidRateClosed(baseline_rate) ==
    /\ ~IsNaN(baseline_rate)
    /\ ~RatLess(baseline_rate, Zero)
    /\ ~RatLess(One, baseline_rate)

\* 0 < baseline_rate < 1, false for NaN
ValidRate(baseline_rate) ==
    /\ ~IsNaN(baseline_rate)
    /\ RatLess(Zero, baseline_rate)
    /\ RatLess(baseline_rate, One)

AltRate(b, e) ==
    IF b + e >= Units THEN AltRateHigh
    ELSE IF b + e <= 0 THEN AltRateLow
    ELSE b + e

\* (z_alpha * sqrt(2 p (1 - p)) + z_power * sqrt(b (1 - b) + a (1 - a))) ** 2
\* with p = (b + a) / 2, in units squared
Numerator(b, a, power, alpha) ==
    LET root == (ZAlpha(alpha) * ISqrt(((b + a) * (2 * Units - (b + a))) \div 2)
                 + ZPower(power) * ISqrt(b * (Units - b) + a * (Units - a))) \div Units
    IN  root * root

SampleSize(b, a, power, alpha) ==
    LET n == (Numerator(b, a, power, alpha) + (b - a) * (b - a) - 1) \div ((b - a) * (b - a))
    IN  IF n < MinSampleSize THEN MinSampleSize ELSE n

MinimumSampleSize(baseline_rate, min_effect, power, alpha) ==
    IF ~ValidRate(baseline_rate)
    THEN PowerAnalysisResult(baseline_rate, min_effect, FallbackSampleSize, power, alpha,
                             Words_invalid)
    ELSE LET b == ToUnits(baseline_rate)
             alt_rate == AltRate(b, ToUnits(min_effect))
         IN  IF b = alt_rate
             THEN PowerAnalysisResult(baseline_rate, min_effect, FallbackSampleSize, power,
                                      alpha, Words_zero_effect)
             ELSE PowerAnalysisResult(baseline_rate, min_effect,
                                      SampleSize(b, alt_rate, power, alpha), power, alpha,
                                      Words_power)

BaselineRates ==
    {Rat(-1, 2), Zero, Rat(1, 100), Rat(1, 2), Rat(7, 10), Rat(9, 10), Rat(99, 100), One,
     Rat(3, 2), NaN}
MinEffects ==
    {Rat(-99, 200), Rat(-1, 10), Zero, Rat(1, 20), Rat(19, 200), Rat(1, 10), Rat(1, 5),
     Rat(99, 200), Rat(1, 2)}

MinimumSampleSizeCalls ==
    {[op |-> "minimum_sample_size", baseline_rate |-> b, min_effect |-> e, power |-> p,
      alpha |-> a] :
         b \in BaselineRates, e \in MinEffects, p \in {Rat(4, 5), Rat(9, 10)},
         a \in {Rat(1, 20), Rat(1, 100)}}

MinimumSampleSizeCall ==
    /\ pc = "call_made"
    /\ call.op = "minimum_sample_size"
    /\ ret' = Some(MinimumSampleSize(call.baseline_rate, call.min_effect, call.power,
                                     call.alpha))
    /\ pc' = "returned"
    /\ UNCHANGED <<gradeVars, compareVars, regressVars, call, previous>>

\* the caller asking again for a larger min_effect, the rest unchanged
MinimumSampleSizeLargerEffect ==
    /\ pc = "returned"
    /\ call.op = "minimum_sample_size"
    /\ previous = None
    /\ \E e \in MinEffects :
          /\ RatLess(call.min_effect, e)
          /\ call' = [call EXCEPT !.min_effect = e]
          /\ ret' = Some(MinimumSampleSize(call.baseline_rate, e, call.power, call.alpha))
    /\ previous' = Some([min_effect |-> call.min_effect, result |-> ret[1]])
    /\ UNCHANGED <<pc, gradeVars, compareVars, regressVars>>

(***************************************************************************)
(* EvalRunner.run_matrix and run_single (harness/runner.py) with           *)
(* ClaudeExecutor.run (harness/executor.py).  A trial is what the CLI and  *)
(* the grader do for one run: how the execution ended and the verdict of   *)
(* the grader on the environment it left.                                  *)
(***************************************************************************)
MaxTrials == 3

\* the execution ran to its end (the CLI may still report is_error), hit the
\* timeout, or failed to start
Executions == {"completed", "reported_error", "timeout", "failed"}

Trials == [execution : Executions, passed : BOOLEAN]

\* ClaudeExecutor.run: a timeout or another exception becomes a trace with
\* is_error = True
ExecutorRun(trial) ==
    CASE trial.execution = "timeout" ->
            [result |-> "Execution timed out", is_error |-> TRUE]
      [] trial.execution = "failed" ->
            [result |-> "Execution failed", is_error |-> TRUE]
      [] trial.execution = "reported_error" -> [result |-> "output", is_error |-> TRUE]
      [] OTHER -> [result |-> "output", is_error |-> FALSE]

\* run_single for the k-th trial of the matrix, k counted from 0
RunSingle(matrix, k) ==
    [task_id |-> (k \div (matrix.runs_per_combo * matrix.configs)) + 1,
     config_name |-> ((k \div matrix.runs_per_combo) % matrix.configs) + 1,
     run_index |-> k % matrix.runs_per_combo,
     trace |-> ExecutorRun(matrix.trials[k + 1]),
     passed |-> matrix.trials[k + 1].passed]

RunMatrixCalls ==
    UNION {{[op |-> "run_matrix", tasks |-> t, configs |-> c, runs_per_combo |-> r,
             trials |-> x] : x \in [1..(t * c * r) -> Trials]} :
               <<t, c, r>> \in {y \in (1..MaxTrials) \X (1..MaxTrials) \X (1..MaxTrials) :
                                   y[1] * y[2] * y[3] <= MaxTrials}}

\* one pass of the innermost loop: run_single, then results.append(result)
RunMatrixStep ==
    /\ pc \in {"call_made", "running"}
    /\ call.op = "run_matrix"
    /\ LET done == IF ret = None THEN 0 ELSE Len(ret[1])
       IN  /\ done < Len(call.trials)
           /\ ret' = Some((IF ret = None THEN <<>> ELSE ret[1])
                          \o <<RunSingle(call, done)>>)
    /\ pc' = "running"
    /\ UNCHANGED <<gradeVars, compareVars, regressVars, call, previous>>

\* return results
RunMatrixReturn ==
    /\ pc = "running"
    /\ call.op = "run_matrix"
    /\ Len(ret[1]) = Len(call.trials)
    /\ pc' = "returned"
    /\ UNCHANGED <<gradeVars, compareVars, regressVars, callVars>>

(***************************************************************************)
(* StatisticalAnalyzer.calculate_stability (harness/statistics.py).  The   *)
(* square roots are kept squared: std_dev_sq and cv_sq are the squares of  *)
(* std_dev and coefficient_of_variation.                                   *)
(***************************************************************************)
\* np.var(scores, ddof=1) if len(scores) > 1 else 0.0
SampleVariance(scores) ==
    IF Size(scores) > 1
    THEN Rat(SumSq(scores), Size(scores) * (Size(scores) - 1) * ScoreScale * ScoreScale)
    ELSE Zero

\* std_dev / mean without the guard on the mean
CvSqNoZeroGuard(variance, mean) ==
    Rat(variance.num * mean.den * mean.den, variance.den * mean.num * mean.num)

\* float(std_dev / mean) if mean > 0 else 0.0, squared
CvSq(variance, mean) ==
    IF RatLess(Zero, mean)
    THEN Rat(variance.num * mean.den * mean.den, variance.den * mean.num * mean.num)
    ELSE Zero

\* np.min(scores) and np.max(scores) of a non-empty sample, in steps
RECURSIVE MinStepFrom(_, _)
MinStepFrom(scores, l) == IF scores[l] > 0 THEN l ELSE MinStepFrom(scores, l + 1)
RECURSIVE MaxStepFrom(_, _)
MaxStepFrom(scores, l) == IF scores[l] > 0 THEN l ELSE MaxStepFrom(scores, l - 1)

StabilityMetrics(variance, std_dev_sq, cv_sq, min_score, max_score, score_range) ==
    [variance |-> variance, std_dev_sq |-> std_dev_sq, cv_sq |-> cv_sq,
     min_score |-> min_score, max_score |-> max_score, score_range |-> score_range]

CalculateStability(scores) ==
    IF Size(scores) = 0 THEN StabilityMetrics(Zero, Zero, Zero, Zero, Zero, Zero)
    ELSE StabilityMetrics(
            SampleVariance(scores),
            SampleVariance(scores),
            CvSq(SampleVariance(scores), Mean(scores)),
            Rat(MinStepFrom(scores, 0), ScoreScale),
            Rat(MaxStepFrom(scores, ScoreScale), ScoreScale),
            Rat(MaxStepFrom(scores, ScoreScale) - MinStepFrom(scores, 0), ScoreScale))

CalculateStabilityCalls ==
    {[op |-> "calculate_stability", results |-> s] : s \in SmallSamples \cup TwoLevelSamples}

CalculateStabilityCall ==
    /\ pc = "call_made"
    /\ call.op = "calculate_stability"
    /\ ret' = Some(CalculateStability(call.results))
    /\ pc' = "returned"
    /\ UNCHANGED <<gradeVars, compareVars, regressVars, call, previous>>

(***************************************************************************)
(* Reporter._calculate_metrics (harness/reporter.py).  The group is held   *)
(* as the number of its passed and of its failed results; the averages of  *)
(* score, tokens, duration and cost and the stability metrics are computed *)
(* from other fields of the results and are left out.                      *)
(***************************************************************************)
PassAtKValues == {1, 3, 5}

AggregatedMetrics(total_runs, n_passed, pass_rate, pass_at_k) ==
    [total_runs |-> total_runs, passed |-> n_passed, failed |-> total_runs - n_passed,
     pass_rate |-> pass_rate, pass_at_k |-> pass_at_k]

CalculateMetrics(results) ==
    LET total == results.passed + results.failed
    IN  AggregatedMetrics(total, results.passed,
                          IF total # 0 THEN Rat(results.passed, total) ELSE Zero,
                          [k \in PassAtKValues |-> PassAtKUnbiased(results, k)])

CalculateMetricsCalls ==
    UNION {{[op |-> "_calculate_metrics", results |-> [passed |-> c, failed |-> f]] :
                f \in 0..(MaxRuns - c)} : c \in 0..MaxRuns}

CalculateMetricsCall ==
    /\ pc = "call_made"
    /\ call.op = "_calculate_metrics"
    /\ ret' = Some(CalculateMetrics(call.results))
    /\ pc' = "returned"
    /\ UNCHANGED <<gradeVars, compareVars, regressVars, call, previous>>

(***************************************************************************)
(* Specifications: the inputs are drawn in the initial state, each call    *)
(* is one step                                                             *)
(***************************************************************************)
IdleGrade ==
    /\ task = None
    /\ code_results = <<>>
    /\ llm_results = <<>>
    /\ grades = <<>>
    /\ overall_score = Zero
    /\ passed = FALSE
    /\ threshold = None

IdleCompare ==
    /\ results_a = NoSample
    /\ results_b = NoSample
    /\ comparison = None
    /\ rec_args = None
    /\ recommendation = None

IdleRegress ==
    /\ baseline = NoResults
    /\ current = NoResults
    /\ regression_threshold = Zero
    /\ require_significance = FALSE
    /\ report = None
    /\ swapped = None

IdleCall ==
    /\ call = None
    /\ ret = None
    /\ previous = None

\* a task as the loader supplies it, with the outcome each grading primitive
\* will produce for it
InitGrade ==
    /\ pc = "task_loaded"
    /\ task \in Tasks
    /\ code_results \in [1..task.code_assertions -> CodeOutcomes]
    /\ llm_results \in [1..task.llm_assertions -> LLMOutcomes]
    /\ grades = <<>>
    /\ overall_score = Zero
    /\ passed = FALSE
    /\ threshold = None
    /\ IdleCompare
    /\ IdleRegress
    /\ IdleCall

\* two groups of results, or the arguments of one call of the helper
InitCompare ==
    /\ IdleGrade
    /\ IdleRegress
    /\ IdleCall
    /\ comparison = None
    /\ recommendation = None
    /\ \/ /\ pc = "results_loaded"
          /\ \/ results_a \in TwoLevelSamples /\ results_b \in TwoLevelSamples
             \/ results_a \in SmallSamples /\ results_b \in SmallSamples
          /\ rec_args = None
       \/ /\ pc = "args_chosen"
          /\ results_a = NoSample
          /\ results_b = NoSample
          /\ rec_args \in {Some(r) : r \in RecArgs}

\* a low-scoring group A and a high-scoring group B of RunsPerGroup runs each
InitSeparated ==
    /\ IdleGrade
    /\ IdleRegress
    /\ IdleCall
    /\ comparison = None
    /\ recommendation = None
    /\ rec_args = None
    /\ pc = "results_loaded"
    /\ results_a \in LowSamples
    /\ results_b \in HighSamples

\* two persisted result collections and the arguments of the check
InitRegress ==
    /\ IdleGrade
    /\ IdleCompare
    /\ IdleCall
    /\ pc = "runs_loaded"
    /\ baseline \in ResultLists
    /\ current \in ResultLists
    /\ regression_threshold \in RegressionThresholds
    /\ require_significance \in BOOLEAN
    /\ report = None
    /\ swapped = None

\* a call of a static helper with the arguments drawn from Calls
InitCall(Calls) ==
    /\ IdleGrade
    /\ IdleCompare
    /\ IdleRegress
    /\ pc = "call_made"
    /\ call \in Calls
    /\ ret = None
    /\ previous = None

InitIsRegression == InitCall(IsRegressionCalls)

InitPassAtK == InitCall(PassAtKCalls)

vars == <<pc, gradeVars, compareVars, regressVars, callVars>>

NextGrade == Grade \/ GetThreshold

SpecGrade == InitGrade /\ [][NextGrade]_vars

NextCompare == CompareConfigsCall \/ GenerateRecommendationCall

SpecCompare == InitCompare /\ [][NextCompare]_vars

SpecSeparated == InitSeparated /\ [][CompareConfigsCall]_vars

NextRegress == CheckRegressionCall \/ CheckRegressionSwappedCall

SpecRegress == InitRegress /\ [][NextRegress]_vars

NextIsRegression == IsRegressionCall \/ IsRegressionSwappedCall

NextPassAtK == PassAtKCall \/ PassAtKNextCall

SpecPassAtK == InitPassAtK /\ [][NextPassAtK]_vars

InitCodeGrader == InitCall(GradeCalls \cup GradeTestsPassCalls)

NextCodeGrader == CodeGraderGradeCall \/ GradeTestsPassCall \/ GradeOneMoreViolation

SpecCodeGrader == InitCodeGrader /\ [][NextCodeGrader]_vars

InitParseResponse == InitCall(ParseResponseCalls)

SpecParseResponse == InitParseResponse /\ [][ParseResponseCall]_vars

InitLLMGrade == InitCall(LLMGradeCalls)

SpecLLMGrade == InitLLMGrade /\ [][LLMGraderGradeCall]_vars

InitMinimumSampleSize == InitCall(MinimumSampleSizeCalls)

NextMinimumSampleSize == MinimumSampleSizeCall \/ MinimumSampleSizeLargerEffect

SpecMinimumSampleSize == InitMinimumSampleSize /\ [][NextMinimumSampleSize]_vars

InitRunMatrix == InitCall(RunMatrixCalls)

NextRunMatrix == RunMatrixStep \/ RunMatrixReturn

SpecRunMatrix == InitRunMatrix /\ [][NextRunMatrix]_vars

InitStability == InitCall(CalculateStabilityCalls)

SpecStability == InitStability /\ [][CalculateStabilityCall]_vars

InitMetrics == InitCall(CalculateMetricsCalls)

SpecMetrics == InitMetrics /\ [][CalculateMetricsCall]_vars

NextAgree == CheckRegressionCall \/ IsRegressionSameCall

SpecAgree == InitRegress /\ [][NextAgree]_vars

\* both regression checks, each followed by the exchanged call
SpecDirection ==
    (InitRegress \/ InitIsRegression) /\ [][NextRegress \/ NextIsRegression]_vars

Init == InitGrade \/ InitCompare \/ InitSeparated \/ InitRegress \/ InitIsRegression
        \/ InitPassAtK \/ InitCodeGrader \/ InitParseResponse
        \/ InitMinimumSampleSize \/ InitRunMatrix \/ InitStability
        \/ InitLLMGrade \/ InitMetrics

Next == NextGrade \/ NextCompare \/ NextRegress \/ NextIsRegression \/ NextPassAtK
        \/ NextCodeGrader \/ ParseResponseCall \/ NextMinimumSampleSize
        \/ NextRunMatrix \/ CalculateStabilityCall
        \/ LLMGraderGradeCall \/ CalculateMetricsCall \/ IsRegressionSameCall

Spec == Init /\ [][Next]_vars

(***************************************************************************)
(* Claims about CompositeGrader (checked under SpecGrade)                  *)
(***************************************************************************)
Graded == pc \in {"graded", "threshold_read"}

\* the grades of the code assertions come first in the list
IsCodeGrade(i) == i <= task.code_assertions

\* the threshold the documentation gives for the task, in hundredths
DocumentedThreshold ==
    IF task.pass_threshold # None THEN task.pass_threshold[1]
    ELSE IF task.difficulty = "easy" THEN 85
    ELSE IF task.difficulty = "medium" THEN 70
    ELSE 55

\* C1: grade returns passed = TRUE exactly when overall_score >= threshold or
\* every code-assertion grade has passed
C1_OrPolicy ==
    Graded =>
        (passed <=>
            \/ overall_score.num >= DocumentedThreshold * overall_score.den
            \/ \A i \in 1..Len(grades) : IsCodeGrade(i) => grades[i].passed)

\* C1 witness: the code assertions all pass, an LLM assertion scores 0.2, the
\* overall score is below the threshold, and the run is marked passed
C1_Witness ==
    /\ Graded
    /\ task.code_assertions >= 1
    /\ \A i \in 1..Len(grades) : IsCodeGrade(i) => grades[i].passed
    /\ \E i \in 1..Len(grades) : ~IsCodeGrade(i) /\ grades[i].score = 20
    /\ overall_score.num < DocumentedThreshold * overall_score.den
    /\ passed

\* C2: a task with zero assertions gets overall_score = 0.0 and passed = FALSE
C2_NoAssertionsNeverPass ==
    (Graded /\ task.code_assertions = 0 /\ task.llm_assertions = 0) =>
        (overall_score = Zero /\ ~passed)

\* The weight C4 gives a grade: the value of the first key of task.scoring that
\* is a substring of its id, whatever that value is; 1.0 when no key matches
RECURSIVE ClaimedWeight(_, _)
ClaimedWeight(weights, id) ==
    IF weights = <<>> THEN 10
    ELSE IF IsSubstring(Head(weights)[1], id) THEN Head(weights)[2]
    ELSE ClaimedWeight(Tail(weights), id)

ClaimedWeights == [i \in 1..Len(grades) |-> ClaimedWeight(task.scoring, grades[i].assertion_id)]
ClaimedWeightedSum == SeqSum([i \in 1..Len(grades) |-> grades[i].score * ClaimedWeights[i]])

\* C4: overall_score = sum(score_i * w_i) / sum(w_i) with the weights above
\* (stated where that quotient is defined and positive weights are in force)
C4_WeightedMean ==
    (Graded /\ Len(grades) > 0 /\ SeqSum(ClaimedWeights) > 0) =>
        overall_score.num * SeqSum(ClaimedWeights) = overall_score.den * ClaimedWeightedSum

\* C5: grade applies task.pass_threshold whenever it is set (0.0 included), else
\* 0.85 / 0.70 / 0.55 by difficulty, and get_threshold_for_task returns that
\* same threshold
C5_Threshold ==
    /\ Graded =>
        (passed <=>
            \/ overall_score.num >= DocumentedThreshold * overall_score.den
            \/ \A i \in 1..Len(grades) : IsCodeGrade(i) => grades[i].passed)
    /\ pc = "threshold_read" => threshold = Some(DocumentedThreshold)

\* C5 witness: an explicit threshold of 0.0 is what lets a run pass whose code
\* assertion failed and whose score is below every difficulty threshold
C5_Witness ==
    /\ pc = "threshold_read"
    /\ task.pass_threshold = Some(0)
    /\ threshold = Some(0)
    /\ \E i \in 1..Len(grades) : IsCodeGrade(i) /\ ~grades[i].passed
    /\ overall_score.num < 55 * overall_score.den
    /\ passed

BelowThreshold == overall_score.num < DocumentedThreshold * overall_score.den

\* C27: a run whose overall_score is below the pass threshold is marked passed
\* only if the task has at least one code assertion and every code-assertion
\* grade passed; a task with only LLM assertions passes iff
\* overall_score >= threshold
C27_ObjectiveSuccessOnly ==
    /\ (Graded /\ BelowThreshold /\ passed) =>
          /\ task.code_assertions >= 1
          /\ \A i \in 1..Len(grades) : IsCodeGrade(i) => grades[i].passed
    /\ (Graded /\ task.code_assertions = 0 /\ task.llm_assertions >= 1) =>
          (passed <=> ~BelowThreshold)

\* Field(ge=0.0, le=1.0) of EvalResult.overall_score, the score in hundredths
ValidOverallScore(score) ==
    /\ score.den > 0
    /\ 0 <= score.num
    /\ score.num <= 100 * score.den

\* C28: for every scoring map (any weights, zero and negative included) and
\* any grades with scores in [0, 1], the overall_score returned by grade lies
\* in [0, 1], so that building the EvalResult in run_single passes validation
C28_ScoreInUnitInterval ==
    Graded => ValidOverallScore(overall_score)

(***************************************************************************)
(* Claims about compare_configs (checked under SpecCompare, C8 under       *)
(* SpecSeparated)                                                          *)
(***************************************************************************)
Compared == pc = "compared"
Cmp == comparison[1]
NA == Size(results_a)
NB == Size(results_b)

\* C6: with fewer than 2 samples in either group compare_configs returns the
\* neutral result: not significant, p = 1.0, effect 0.0 negligible, relative
\* change 0.0, and the "Insufficient samples" recommendation
C6_InsufficientSamples ==
    (Compared /\ (NA < 2 \/ NB < 2)) =>
        /\ Cmp.is_significant = FALSE
        /\ Cmp.p_value = "1.0"
        /\ Cmp.effect_size_sq = Zero
        /\ Cmp.effect_magnitude = "negligible"
        /\ Cmp.relative_change = Zero
        /\ Cmp.recommendation.lead =
              "Insufficient samples for statistical comparison (need at least 2 per group)."

\* C6 witness: one run scoring 0.75 against one run scoring 0.25
C6_Witness ==
    /\ Compared
    /\ NA = 1 /\ results_a[3] = 1
    /\ NB = 1 /\ results_b[1] = 1
    /\ Cmp.delta = Rat(-1, 2)
    /\ Cmp.recommendation = InsufficientSamples

\* every score of the group equals one constant
Constant(scores) == \E l \in Levels : scores[l] = Size(scores)

MinLevel(scores) == CHOOSE l \in Levels : scores[l] > 0 /\ \A k \in 0..(l - 1) : scores[k] = 0
MaxLevel(scores) ==
    CHOOSE l \in Levels : scores[l] > 0 /\ \A k \in (l + 1)..ScoreScale : scores[k] = 0

\* C8: two groups of 20 runs, every score of B more than 0.5 above every score
\* of A: delta > 0.5, is_significant, effect_magnitude = "large"
C8_SeparatedIsLarge ==
    (Compared /\ NA = 20 /\ NB = 20
        /\ 2 * (MinLevel(results_b) - MaxLevel(results_a)) > ScoreScale) =>
        /\ 2 * Cmp.delta.num > Cmp.delta.den
        /\ Cmp.is_significant
        /\ Cmp.effect_magnitude = "large"

DecisionTable(min_n, sig, mag, rec) ==
    /\ min_n < 5 =>
          /\ rec.lead = "Sample size too small"
          /\ rec.advice = "Collect at least 5 runs per configuration for reliable comparison."
    /\ (min_n >= 5 /\ ~sig) =>
          /\ rec.lead = "No significant difference detected"
          /\ min_n < 10 =>
                rec.advice = "Consider increasing sample size for more statistical power."
          /\ min_n >= 10 => rec.advice = "The configurations appear equivalent."
    /\ (min_n >= 5 /\ sig) =>
          /\ mag = "negligible" =>
                /\ rec.lead = "Statistically significant but negligible"
                /\ rec.advice = "The practical difference is minimal."
          /\ mag = "small" =>
                /\ rec.lead = "Statistically significant small"
                /\ rec.advice = "Consider whether this is practically meaningful."
          /\ mag = "medium" =>
                /\ rec.lead = "Significant medium"
                /\ rec.advice = "This is a meaningful difference."
          /\ mag = "large" =>
                /\ rec.lead = "Significant large"
                /\ rec.advice = "This is a substantial difference."

\* C10: for n_a, n_b >= 2 the recommendation follows the prioritized table:
\* min n < 5 first, then not significant (wording by min n < 10), then the
\* magnitude
C10_DecisionTable ==
    /\ (Compared /\ NA >= 2 /\ NB >= 2) =>
          DecisionTable(MinN(NA, NB), Cmp.is_significant, Cmp.effect_magnitude,
                        Cmp.recommendation)
    /\ (pc = "recommended" /\ rec_args[1].n_a >= 2 /\ rec_args[1].n_b >= 2) =>
          DecisionTable(MinN(rec_args[1].n_a, rec_args[1].n_b), rec_args[1].is_significant,
                        rec_args[1].effect_magnitude, recommendation[1])

\* C10 witness: a significant comparison of 3 runs against 3 runs still gets the
\* "sample size too small" message
C10_Witness ==
    /\ Compared
    /\ NA = 3 /\ NB = 3
    /\ Cmp.is_significant
    /\ Cmp.recommendation.lead = "Sample size too small"
    /\ Cmp.recommendation.n = 3

\* effect_size < h / 100 and effect_size >= h / 100 for the computed effect size,
\* by squares
EsBelow(h) == 10000 * Cmp.effect_size_sq.num < h * h * Cmp.effect_size_sq.den
EsAtLeast(h) == 10000 * Cmp.effect_size_sq.num >= h * h * Cmp.effect_size_sq.den

\* C11: the effect size d falls in exactly one bucket, negligible iff d < 0.2,
\* small iff 0.2 <= d < 0.5, medium iff 0.5 <= d < 0.8, large iff d >= 0.8, and
\* is_significant iff p_value < alpha
C11_Buckets ==
    Compared =>
        /\ Cmp.effect_magnitude = "negligible" <=> EsBelow(20)
        /\ Cmp.effect_magnitude = "small" <=> (EsAtLeast(20) /\ EsBelow(50))
        /\ Cmp.effect_magnitude = "medium" <=> (EsAtLeast(50) /\ EsBelow(80))
        /\ Cmp.effect_magnitude = "large" <=> EsAtLeast(80)
        /\ Cmp.is_significant <=> Cmp.p_value = "<0.05"

\* C11 witness: an effect size of exactly 0.5 is medium
C11_Witness ==
    /\ Compared
    /\ NA >= 2 /\ NB >= 2
    /\ Cmp.effect_size_sq = Rat(1, 4)
    /\ Cmp.effect_magnitude = "medium"

\* the direction word is "improvement" only for delta > 0 and "regression" only
\* for delta < 0
FollowsSign(rec, delta) ==
    /\ rec.direction = "improvement" => delta.num > 0
    /\ rec.direction = "regression" => delta.num < 0

\* C25: when a comparison is significant with at least 5 samples per group, the
\* direction word of the recommendation follows the sign of delta: it says
\* "improvement" only when delta > 0 and "regression" only when delta < 0
C25_DirectionFollowsSign ==
    /\ (Compared /\ Cmp.is_significant /\ MinN(NA, NB) >= MinRunsReliable) =>
          FollowsSign(Cmp.recommendation, Cmp.delta)
    /\ (pc = "recommended" /\ rec_args[1].is_significant
            /\ MinN(rec_args[1].n_a, rec_args[1].n_b) >= MinRunsReliable) =>
          FollowsSign(recommendation[1], rec_args[1].delta)

(***************************************************************************)
(* Claims about pass_at_k_unbiased (checked under SpecPassAtK)             *)
(***************************************************************************)
PassAtKReturned == pc = "returned" /\ call.op = "pass_at_k_unbiased"
PassN == call.results.passed + call.results.failed
PassC == call.results.passed

\* C14: 1.0 when every result passed and 1 <= k <= n, 0.0 when none passed for
\* every k, 0.0 for the empty list for every k
C14_AllOrNonePassed ==
    PassAtKReturned =>
        /\ (PassN > 0 /\ PassC = PassN /\ 1 <= call.k /\ call.k <= PassN) => ret[1] = One
        /\ PassC = 0 => ret[1] = Zero

\* C14 witness: the empty list with k = 1 gives 0.0
C14_Witness ==
    /\ PassAtKReturned
    /\ PassN = 0
    /\ call.k = 1
    /\ ret[1] = Zero

\* the binomial coefficient by Pascal's rule
RECURSIVE Choose(_, _)
Choose(n, k) ==
    IF k = 0 THEN 1
    ELSE IF n = 0 THEN 0
    ELSE Choose(n - 1, k - 1) + Choose(n - 1, k)

GradeReturned == pc = "returned" /\ call.op = "grade"

GradedCheck(kind) == GradeReturned /\ call.assertion.check = kind

TestsGraded ==
    /\ pc = "returned"
    /\ call.op = "grade_tests_pass" \/ (call.op = "grade" /\ call.assertion.check = "tests_pass")
    /\ call.env.outcome = "completed"

TestsThreshold ==
    IF call.op = "grade_tests_pass" THEN call.pass_threshold ELSE DefaultPassThreshold

ParsedP == SearchCount(call.env.output, "passed")
ParsedTotal ==
    ParsedP + SearchCount(call.env.output, "failed") + SearchCount(call.env.output, "error")

\* C16: with parsed counts p, f, e and p+f+e > 0 the score is p/(p+f+e) and
\* passed is (exit code = 0) or (score >= pass_threshold, 0.8 by default); with
\* no parsed count the grade is 1.0 and passed for exit code 0, else 0.0 and
\* not passed
C16_PartialCredit ==
    TestsGraded =>
        /\ ~ret[1].raised
        /\ ParsedTotal > 0 =>
              /\ ret[1].score.den > 0
              /\ ret[1].score.num * ParsedTotal = ret[1].score.den * ParsedP
              /\ ret[1].passed <=>
                    \/ call.env.returncode = 0
                    \/ ParsedP * TestsThreshold.den >= TestsThreshold.num * ParsedTotal
        /\ ParsedTotal = 0 =>
              /\ ret[1].passed <=> call.env.returncode = 0
              /\ ret[1].score = IF call.env.returncode = 0 THEN One ELSE Zero

\* C16 witness: "9 passed, 1 failed" with a non-zero exit code and the default
\* threshold gives score 0.9 and passed
C16_Witness ==
    /\ TestsGraded
    /\ call.op = "grade_tests_pass"
    /\ call.pass_threshold = DefaultPassThreshold
    /\ call.env.returncode = 1
    /\ call.env.output = <<[count |-> 9, word |-> "passed"], [count |-> 1, word |-> "failed"]>>
    /\ ret[1].score = Rat(9, 10)
    /\ ret[1].passed

\* the counted violations of a completed lint or type-check run
Counted == IF call.assertion.check = "ruff_clean" THEN call.env.violations ELSE call.env.errors

\* 1/penalty: 10 for a lint violation, 20 for a type error
PerUnit == IF call.assertion.check = "ruff_clean" THEN 10 ELSE 20

Floor0(x) == IF x < 0 THEN 0 ELSE x

\* score = max(0, 1 - v * penalty), passed = (score >= 0.7)
ScoredByPenalty ==
    /\ ~ret[1].raised
    /\ ret[1].score.den > 0
    /\ ret[1].score.num * PerUnit = ret[1].score.den * Floor0(PerUnit - Counted)
    /\ ret[1].passed <=> ret[1].score.num * 10 >= ret[1].score.den * 7
    /\ ret[1].passed <=> Counted <= (IF call.assertion.check = "ruff_clean" THEN 3 ELSE 6)

\* the score is within [0, 1] and not above the score for one violation fewer
BoundedAndNonIncreasing ==
    /\ 0 <= ret[1].score.num
    /\ ret[1].score.num <= ret[1].score.den
    /\ previous # None => ~RatLess(previous[1].score, ret[1].score)

LintGraded ==
    /\ GradeReturned
    /\ call.assertion.check \in {"ruff_clean", "mypy_clean"}
    /\ call.env.outcome = "completed"

MissingParameter ==
    \/ /\ call.assertion.check \in {"file_contains", "file_not_contains"}
       /\ ~Truthy(call.assertion.file) \/ ~Truthy(call.assertion.pattern)
    \/ call.assertion.check = "file_exists" /\ ~Truthy(call.assertion.file)
    \/ call.assertion.check = "command_succeeds" /\ ~Truthy(call.assertion.command)

\* the check itself failed to run: missing file, invalid regex, timeout,
\* missing binary or another exception
CheckFailed ==
    \/ /\ call.assertion.check \in {"tests_pass", "command_succeeds", "ruff_clean", "mypy_clean"}
       /\ call.env.outcome # "completed"
    \/ /\ call.assertion.check \in {"file_contains", "file_not_contains", "file_exists"}
       /\ call.env.stat # "exists"
    \/ /\ call.assertion.check \in {"file_contains", "file_not_contains"}
       /\ call.env.stat = "exists"
       /\ call.env.read \in {"invalid_regex", "read_error"}

\* C18: grade returns one GradeResult and never raises, and every failure
\* outcome (missing parameter, missing file, invalid regex, timeout, missing
\* binary, any other exception) gives passed = False and score = 0.0
C18_NeverRaises ==
    GradeReturned =>
        /\ ~ret[1].raised
        /\ (MissingParameter \/ CheckFailed) => ~ret[1].passed /\ ret[1].score = Zero

(***************************************************************************)
(* Claims about LLMGrader._parse_response (checked under SpecParseResponse)*)
(***************************************************************************)
\* C19: whenever the structured response reports regression_check.passed =
\* false, the result has score = min(overall_score, 0.5) and passed = False,
\* whatever the judge's own overall_score and passed fields are
C19_RegressionCap ==
    (/\ pc = "returned"
     /\ call.op = "_parse_response"
     /\ call.response.valid_json
     /\ call.response.overall_score # None
     /\ call.response.regression_check # None
     /\ call.response.regression_check[1].has_passed
     /\ ~call.response.regression_check[1].passed) =>
        /\ ~ret[1].passed
        /\ ret[1].score =
              Rat(IF call.response.overall_score[1] < 5 THEN call.response.overall_score[1] ELSE 5,
                  Tenths)

(***************************************************************************)
(* Claims about LLMGrader.grade (checked under SpecLLMGrade)               *)
(***************************************************************************)
\* the judge failed: the transport failed, or the answer is not the
\* structured JSON object
JudgeFailure ==
    \/ call.api = "transport_error"
    \/ ~call.response.valid_json
    \/ call.shape # "object"

\* passed iff the text says "passed" or "success", score 0.7 or 0.3
KeywordHeuristic(result, says) ==
    /\ result.passed = says
    /\ result.score = (IF says THEN Rat(7, Tenths) ELSE Rat(3, Tenths))

\* C26: grade never raises on a judge failure: when the API call fails or the
\* response cannot be parsed as the structured JSON payload, it returns the
\* result of the keyword heuristic, passed iff the response text contains
\* "passed" or "success", with score 0.7 when passed and 0.3 otherwise
C26_DegradesToHeuristic ==
    (pc = "returned" /\ call.op = "llm_grade" /\ JudgeFailure) =>
        /\ ~ret[1].raised
        /\ KeywordHeuristic(ret[1],
                            call.api = "answered" /\ MentionsPassed(call.response))

(***************************************************************************)
(* Claims about minimum_sample_size (checked under SpecMinimumSampleSize)  *)
(***************************************************************************)
SampleSizeReturned == pc = "returned" /\ call.op = "minimum_sample_size"

\* the rate is not strictly between 0 and 1
OutsideOpenUnit(r) == IsNaN(r) \/ r.num <= 0 \/ r.num >= r.den

\* C20: for every baseline_rate outside the open interval (0, 1), 0, 1 and 1.5
\* included, the result is recommended_sample_size = 30 with a note holding
\* "Invalid" and the inputs echoed unchanged
C20_InvalidBaseline ==
    (SampleSizeReturned /\ OutsideOpenUnit(call.baseline_rate)) =>
        /\ ret[1].recommended_sample_size = 30
        /\ IsSubstring(<<"Invalid">>, ret[1].notes)
        /\ ret[1].baseline_rate = call.baseline_rate
        /\ ret[1].min_detectable_effect = call.min_effect
        /\ ret[1].power = call.power
        /\ ret[1].alpha = call.alpha

\* C20 witness: baseline_rate 1.5 with min_effect 0.1 returns 30 and the note
C20_Witness ==
    /\ SampleSizeReturned
    /\ call.baseline_rate = Rat(3, 2)
    /\ call.min_effect = Rat(1, 10)
    /\ ret[1].recommended_sample_size = 30
    /\ ret[1].notes = Words_invalid
    /\ ret[1].baseline_rate = Rat(3, 2)

\* C21: for a valid baseline_rate and any min_effect the alternative rate of
\* the formula is baseline_rate + min_effect clamped into [0.01, 0.99], and
\* recommended_sample_size is an integer >= 5
C21_AltRateClamped ==
    (SampleSizeReturned /\ ~OutsideOpenUnit(call.baseline_rate)) =>
        /\ AltRateLow <= AltRate(ToUnits(call.baseline_rate), ToUnits(call.min_effect))
        /\ AltRate(ToUnits(call.baseline_rate), ToUnits(call.min_effect)) <= AltRateHigh
        /\ ret[1].recommended_sample_size \in Nat
        /\ ret[1].recommended_sample_size >= 5

\* C22: for a fixed valid baseline_rate, power and alpha and 0 < e1 < e2 the
\* size recommended for e1 is at least the one recommended for e2
C22_MonotoneInEffect ==
    (/\ SampleSizeReturned
     /\ previous # None
     /\ ~OutsideOpenUnit(call.baseline_rate)
     /\ RatLess(Zero, previous[1].min_effect)) =>
        previous[1].result.recommended_sample_size >= ret[1].recommended_sample_size

(***************************************************************************)
(* Claims about EvalRunner.run_matrix (checked under SpecRunMatrix)        *)
(***************************************************************************)
\* C23: every EvalResult of the returned list comes from a trial whose
\* execution ran to completion; a trial whose execution was aborted (timeout
\* or failure, trace.is_error = true) contributes no EvalResult
C23_TrialAtomicity ==
    (pc = "returned" /\ call.op = "run_matrix") =>
        /\ \A i \in 1..Len(ret[1]) : ~ret[1][i].trace.is_error
        /\ Len(ret[1]) =
              Cardinality({k \in 1..Len(call.trials) :
                              call.trials[k].execution \notin {"timeout", "failed"}})

(***************************************************************************)
(* Claims about calculate_stability (checked under SpecStability)          *)
(***************************************************************************)
StabilityReturned == pc = "returned" /\ call.op = "calculate_stability"

\* the score levels present in the sample
Present == {l \in Levels : call.results[l] > 0}

C29_PassAtKOrdered ==
    (pc = "returned" /\ call.op = "_calculate_metrics"
        /\ call.results.passed + call.results.failed > 0) =>
        /\ ~RatLess(ret[1].pass_at_k[3], ret[1].pass_at_k[1])
        /\ ~RatLess(ret[1].pass_at_k[5], ret[1].pass_at_k[3])
        /\ ret[1].pass_at_k[1] = ret[1].pass_rate

(***************************************************************************)
(* Claims about Reporter.check_regression (checked under SpecRegress)      *)
(***************************************************************************)
Checked == pc \in {"regression_checked", "swap_checked"}
Rep == report[1]

Listed(list, key) == \E i \in 1..Len(list) : list[i].key = key

\* current pass rate - baseline pass rate of a group, 0 standing for a missing side
PassRateDelta(key) ==
    LET nb == GroupSize(baseline, key)
        nc == GroupSize(current, key)
        pb == GroupPassed(baseline, key)
        pcur == GroupPassed(current, key)
    IN  IF nb = 0 /\ nc = 0 THEN Zero
        ELSE IF nb = 0 THEN Rat(pcur, nc)
        ELSE IF nc = 0 THEN Rat(-pb, nb)
        ELSE Rat(pcur * nb - pb * nc, nb * nc)

\* the group has a comparison and the comparison is significant
SignificantGroup(key) ==
    /\ GroupSize(baseline, key) > 0
    /\ GroupSize(current, key) > 0
    /\ CompareConfigs(GroupScores(baseline, key), GroupScores(current, key)).is_significant

\* C12 as stated, for whole calls: a flagged call is not flagged when baseline and
\* current are exchanged (is_regressed of is_regression, has_regressions of
\* check_regression), and a delta >= 0 is never flagged
C12_CallDirection ==
    /\ pc = "swap_returned" =>
          /\ ret[1].is_regressed => ~swapped[1].is_regressed
          /\ (~IsNaN(ret[1].comparison.delta) /\ ret[1].comparison.delta.num >= 0) =>
                ~ret[1].is_regressed
    /\ pc = "swap_checked" => (Rep.has_regressions => ~swapped[1].has_regressions)

\* C12, amended: is_regression as stated; in check_regression every group key
\* listed as a regression is not listed when baseline and current are exchanged,
\* and a group whose pass-rate delta is >= 0 is never listed
C12_GroupDirection ==
    /\ pc = "swap_returned" =>
          /\ ret[1].is_regressed => ~swapped[1].is_regressed
          /\ (~IsNaN(ret[1].comparison.delta) /\ ret[1].comparison.delta.num >= 0) =>
                ~ret[1].is_regressed
    /\ pc = "swap_checked" =>
          \A key \in Keys : Listed(Rep.regressions, key) => ~Listed(swapped[1].regressions, key)
    /\ Checked =>
          \A i \in 1..Len(Rep.regressions) : Rep.regressions[i].delta.num < 0

\* C12 witness: 10 runs scoring 1.0 against 10 runs scoring 0.0 with threshold 0.1
\* and the significance requirement is flagged, the exchanged call is not
C12_Witness ==
    /\ pc = "swap_returned"
    /\ call.baseline_results[ScoreScale] = 10 /\ Size(call.baseline_results) = 10
    /\ call.current_results[0] = 10 /\ Size(call.current_results) = 10
    /\ call.threshold = Rat(1, 10)
    /\ call.require_significance
    /\ ret[1].is_regressed
    /\ ~swapped[1].is_regressed

\* the entries of a list of the report that belong to the key
EntriesOf(list, key) == {i \in 1..Len(list) : list[i].key = key}

\* the parts of C13 that do not concern the statistical details: one comparison
\* entry per key present on either side, regressions and improvements disjoint
\* sub-lists of the comparisons, regression_count the number of regressions
ReportShape ==
    /\ \A key \in Keys :
          Cardinality(EntriesOf(Rep.comparisons, key)) =
              IF GroupSize(baseline, key) > 0 \/ GroupSize(current, key) > 0 THEN 1 ELSE 0
    /\ \A i \in 1..Len(Rep.regressions) :
          \E j \in 1..Len(Rep.comparisons) : Rep.comparisons[j] = Rep.regressions[i]
    /\ \A i \in 1..Len(Rep.improvements) :
          \E j \in 1..Len(Rep.comparisons) : Rep.comparisons[j] = Rep.improvements[i]
    /\ \A key \in Keys : ~(Listed(Rep.regressions, key) /\ Listed(Rep.improvements, key))
    /\ \A key \in Keys : Cardinality(EntriesOf(Rep.regressions, key)) <= 1
    /\ Rep.regression_count = Len(Rep.regressions)

\* C13 as stated: the report has the shape above and every entry carries the
\* p-value, effect magnitude and recommendation of its group besides the delta
C13_EveryEntryHasStatistics ==
    Checked =>
        /\ ReportShape
        /\ \A i \in 1..Len(Rep.comparisons) : Rep.comparisons[i].stat # None

\* C13, amended: the report has the shape above, every entry carries the delta,
\* and an entry carries p-value, effect magnitude and recommendation exactly when
\* its key has results on both sides
C13_EntriesOfTwoSidedKeysHaveStatistics ==
    Checked =>
        /\ ReportShape
        /\ \A i \in 1..Len(Rep.comparisons) :
              /\ Rep.comparisons[i].delta = PassRateDelta(Rep.comparisons[i].key)
              /\ Rep.comparisons[i].stat # None <=>
                    /\ GroupSize(baseline, Rep.comparisons[i].key) > 0
                    /\ GroupSize(current, Rep.comparisons[i].key) > 0

\* C13 witness: two keys, one regressed with its statistics and one new in current
\* and listed as an improvement without statistics
C13_Witness ==
    /\ Checked
    /\ Len(Rep.comparisons) = 2
    /\ Len(Rep.regressions) = 1 /\ Rep.regressions[1].stat # None
    /\ Len(Rep.improvements) = 1 /\ Rep.improvements[1].stat = None
    /\ Rep.regression_count = 1

\* C3: a group of either side is listed as a regression iff its pass-rate delta
\* is below -threshold and, when require_significance, its comparison is
\* significant; has_regressions iff a group is listed
C3_RegressionIff ==
    Checked =>
        /\ \A key \in Keys :
              (GroupSize(baseline, key) > 0 \/ GroupSize(current, key) > 0) =>
                 (Listed(Rep.regressions, key) <=>
                    /\ RatLess(PassRateDelta(key), RatNeg(regression_threshold))
                    /\ require_significance => SignificantGroup(key))
        /\ Rep.has_regressions <=> Len(Rep.regressions) > 0

(***************************************************************************)
(* Claims about the two regression checks together (checked under         *)
(* SpecAgree)                                                              *)
(***************************************************************************)
\* C30: for baseline and current results that form a single group with data
\* on both sides, check_regression reports has_regressions = True exactly
\* when is_regression returns True for the same threshold and
\* require_significance
C30_ChecksAgree ==
    pc = "both_checked" => (report[1].has_regressions <=> ret[1].is_regressed)

====
